---- MODULE Spec2Model ----
(***************************************************************************)
(* Model of the deep-think orchestration engines                          *)
(* (src/src/utils/deep-think/index.ts).                                   *)
(*                                                                         *)
(* Texts (solutions, verdicts, judgments) are sequences of one-character   *)
(* strings, so that toLowerCase / includes / indexOf / substring / trim    *)
(* are computed the way the JavaScript string methods compute them.        *)
(*                                                                         *)
(* DeepThinkEngine.run is an async function: it runs without interruption  *)
(* from one `await` of a generation call to the next.  Each action below   *)
(* is one such uninterrupted segment; pc names the await (or the           *)
(* synchronous program point) the run is standing at.                      *)
(***************************************************************************)
EXTENDS Integers, Sequences, FiniteSets, TLC

(***************************************************************************)
(* Bounds of the model.                                                    *)
(***************************************************************************)
MaxIterationsBound == 5
MaxRequiredBound == 3
MaxErrorsBound == 2

(***************************************************************************)
(* JavaScript string methods on sequences of characters.                   *)
(***************************************************************************)
UpperCaseLetters ==
  <<"A","B","C","D","E","F","G","H","I","J","K","L","M",
    "N","O","P","Q","R","S","T","U","V","W","X","Y","Z">>

LowerCaseLetters ==
  <<"a","b","c","d","e","f","g","h","i","j","k","l","m",
    "n","o","p","q","r","s","t","u","v","w","x","y","z">>

LowerChar(c) ==
  IF \E k \in 1..26 : UpperCaseLetters[k] = c
  THEN LowerCaseLetters[CHOOSE k \in 1..26 : UpperCaseLetters[k] = c]
  ELSE c

ToLowerCase(s) == [k \in 1..Len(s) |-> LowerChar(s[k])]

\* m occurs in s starting at (1-based) position p
OccursAt(s, m, p) ==
  /\ p >= 1
  /\ p + Len(m) - 1 <= Len(s)
  /\ \A k \in 1..Len(m) : s[p + k - 1] = m[k]

\* String.prototype.indexOf, 0-based, -1 when m does not occur
IndexOf(s, m) ==
  IF \E p \in 1..(Len(s) + 1) : OccursAt(s, m, p)
  THEN (CHOOSE p \in 1..(Len(s) + 1) :
          /\ OccursAt(s, m, p)
          /\ \A q \in 1..(p - 1) : ~OccursAt(s, m, q)) - 1
  ELSE -1

Includes(s, m) == IndexOf(s, m) # -1

\* String.prototype.substring(from, to), 0-based, to exclusive
Substring(s, from, to) == SubSeq(s, from + 1, to)

WhiteSpace == {" ", "\n", "\t"}

RECURSIVE TrimStart(_)
TrimStart(s) ==
  IF s # <<>> /\ Head(s) \in WhiteSpace THEN TrimStart(Tail(s)) ELSE s

RECURSIVE TrimEnd(_)
TrimEnd(s) ==
  IF s # <<>> /\ s[Len(s)] \in WhiteSpace
  THEN TrimEnd(SubSeq(s, 1, Len(s) - 1))
  ELSE s

Trim(s) == TrimEnd(TrimStart(s))

(***************************************************************************)
(* Fixed texts of the program.                                             *)
(***************************************************************************)
extractDetailedSolutionMarker ==
  <<"D","e","t","a","i","l","e","d"," ","S","o","l","u","t","i","o","n">>

DetailedVerificationMarker ==
  <<"D","e","t","a","i","l","e","d"," ",
    "V","e","r","i","f","i","c","a","t","i","o","n">>

YesToken == <<"y","e","s">>

TooManyErrorsReason == "Too many errors"

MaxIterationsReason == "Max iterations reached"

(***************************************************************************)
(* Texts the generation capability may answer with.                        *)
(***************************************************************************)
SolutionTexts ==
  { <<"S"," ">> \o extractDetailedSolutionMarker \o <<" ","x"," ">>,
    <<"p","l","a","i","n">> }

\* the raw first solution is only shown (solution event) and replayed in
\* the improvement prompt; one text stands for it
FirstSolutionTexts ==
  { <<"d","r","a","f","t">> }

VerdictTexts ==
  { <<"g","a","p"," ">> \o DetailedVerificationMarker \o <<" ","l","o","g">> }

JudgmentTexts ==
  { <<"Y","e","s",".">>, <<"n","o">>, <<>> }

(***************************************************************************)
(* DeepThinkEngine helpers.                                                *)
(***************************************************************************)
extractDetailedSolution(solution, marker, after) ==
  LET idx == IndexOf(solution, marker)
  IN IF idx = -1
     THEN (IF after THEN <<>> ELSE solution)
     ELSE IF after
          THEN Trim(Substring(solution, idx + Len(marker), Len(solution)))
          ELSE Trim(Substring(solution, 0, idx))

Passed_CaseSensitive(goodVerify) == Includes(goodVerify, YesToken)

\* goodVerify.toLowerCase().includes("yes")
Passed(goodVerify) == Includes(ToLowerCase(goodVerify), YesToken)

\* the tail of verifySolution: the bug report kept for a judgment
BugReportFor(verificationOutput, goodVerify) ==
  IF ~Passed(goodVerify)
  THEN extractDetailedSolution(verificationOutput,
                               DetailedVerificationMarker, FALSE)
  ELSE <<>>

\* let correctCount = passed ? 1 : 0
InitialCorrectCount(passed) == IF passed THEN 1 ELSE 0

LoopContinues_OffByOne(iter, maxIterations) == iter <= maxIterations

\* for (...; i < maxIterations; ...)
LoopContinues(iter, maxIterations) == iter < maxIterations

CorrectCountAfterFail_Kept(count) == count

\* correctCount = 0 on a failed verification
CorrectCountAfterFail(count) == 0

\* correctCount++ on a passed verification
CorrectCountAfterPass(count) == count + 1

TooManyErrors_Strict(errors, maxErrors) == errors > maxErrors

\* if (errorCount >= maxErrors)
TooManyErrors(errors, maxErrors) == errors >= maxErrors

EnoughSuccesses_Strict(count, requiredSuccesses) == count > requiredSuccesses

\* if (correctCount >= requiredSuccesses)
EnoughSuccesses(count, requiredSuccesses) == count >= requiredSuccesses

ExhaustedTotalIterations_LoopIndex(iter, maxIterations) == iter + 1

IterationIndex_OneBased(iter) == iter + 1

\* iteration: i, in the Iteration record pushed by a loop pass
IterationIndex(iter) == iter

\* totalIterations of the result returned after the loop
ExhaustedTotalIterations(iter, maxIterations) == maxIterations

(***************************************************************************)
(* State of one DeepThinkEngine.run().                                     *)
(***************************************************************************)
VARIABLES
  options,          \* maxIterations, requiredSuccessfulVerifications, maxErrorsBeforeGiveUp
  pc,               \* program point of run()
  caller,           \* who called verifySolution: "initial" or "loop"
  i,                \* loop variable of the main loop
  solution,         \* current candidate solution
  verification,     \* current verification {bugReport, goodVerify}
  initial,          \* initial.solution (the improved first solution)
  verificationOutput, \* local of verifySolution, live between its two calls
  correctCount,
  errorCount,
  iterations,       \* DeepThinkIteration[]
  verifications,    \* Verification[]
  events,           \* events handed to onProgress, in order
  calls,            \* generation calls issued, in order (stage names)
  resolved,         \* number of generation calls that resolved or rejected
  verifyLog,        \* one entry per verifySolution call that returned: the
                    \* solution given, the text put in the prompt, passed
  result            \* the DeepThinkResult returned, or NoResult

(***************************************************************************)
(* State of one UltraThinkEngine.run().                                    *)
(***************************************************************************)
VARIABLES
  uoptions,         \* options of the UltraThinkEngine (numAgents 0 = unset)
  upc,              \* program point of UltraThinkEngine.run()
  configs,          \* what generateAgentConfigs returned
  selectedConfigs,  \* configs.slice(0, numAgents) or configs
  agents,           \* one cell per runAgent call, in dispatch order
  uevents,          \* events the UltraThinkEngine handed to onProgress
  ucalls,           \* generation calls issued by the UltraThinkEngine itself
  uerror,           \* the error run() was left with, or NoError
  uresult,          \* the UltraThinkResult returned, or NoResult
  storeAgentResults, \* agentResults of the global store
  consumers         \* per agent, its configuration merged with the updates
                    \* sent for its agentId

\* what the receivers of onAgentUpdate hold
tvars == <<storeAgentResults, consumers>>

uvars == <<uoptions, upc, configs, selectedConfigs, agents, uevents, ucalls,
           uerror, uresult, tvars>>

(***************************************************************************)
(* The two decode paths of generateAgentConfigs applied to one list.       *)
(***************************************************************************)
VARIABLES
  dlist,            \* the list of configurations the model answers with
  dtext,            \* the fenced JSON text holding dlist
  dstructured,      \* what the structured path returned for {configs: dlist}
  dtextual,         \* the outcome of the textual fallback on dtext
  ddone             \* the paths that have been applied

dvars == <<dlist, dtext, dstructured, dtextual, ddone>>

(***************************************************************************)
(* The generation calls of one DeepThinkEngine and what they carry.        *)
(***************************************************************************)
VARIABLES
  goptions,         \* the options the engine was constructed with
  gstage,           \* the next generation call of the run
  gcalls            \* the calls issued: stage, model, tools, providerOptions

gvars == <<goptions, gstage, gcalls>>

(***************************************************************************)
(* The page that submits a run (Topic) and the global store's flags.       *)
(***************************************************************************)
VARIABLES
  isThinking,        \* the global store's isThinking
  localIsThinking,   \* Topic's own isThinking state (disables the button)
  thinkMode,         \* the global store's thinkMode
  deepThinkResult,   \* the global store's deepThinkResult ("null" = null)
  ultraThinkResult,  \* the global store's ultraThinkResult ("null" = null)
  openSetting,       \* the global store's openSetting
  currentPhase,      \* the global store's currentPhase
  taskId,            \* the task store's id ("" = none)
  submitPc           \* where handleSubmit stands

pgvars == <<isThinking, localIsThinking, thinkMode, deepThinkResult,
            ultraThinkResult, openSetting, currentPhase, taskId, submitPc>>

\* the variables outside the engines and the decode paths
hvars == <<gvars, pgvars>>

\* the state of the single-agent run
svars == <<options, pc, caller, i, solution, verification, initial,
           verificationOutput, correctCount, errorCount, iterations,
           verifications, events, calls, resolved, verifyLog, result>>

vars == <<svars, uvars, dvars, hvars>>

NoResult == [mode |-> "none"]

NoError == [kind |-> "none", stage |-> "", preview |-> <<>>]

NoOptions == [maxIterations |-> 0]

\* no UltraThinkEngine exists
UltraIdle ==
  /\ uoptions = NoOptions
  /\ upc = "idle"
  /\ configs = <<>>
  /\ selectedConfigs = <<>>
  /\ agents = <<>>
  /\ uevents = <<>>
  /\ ucalls = <<>>
  /\ uerror = NoError
  /\ uresult = NoResult
  /\ storeAgentResults = <<>>
  /\ consumers = <<>>

\* no decode is under way
DecodeIdle ==
  /\ dlist = <<>>
  /\ dtext = <<>>
  /\ dstructured = <<>>
  /\ dtextual = <<>>
  /\ ddone = {}

\* no generation port is observed
PortIdle ==
  /\ goptions = NoOptions
  /\ gstage = "idle"
  /\ gcalls = <<>>

\* no page is mounted
PageIdle ==
  /\ isThinking = FALSE
  /\ localIsThinking = FALSE
  /\ thinkMode = "deep-think"
  /\ deepThinkResult = "null"
  /\ ultraThinkResult = "null"
  /\ openSetting = FALSE
  /\ currentPhase = ""
  /\ taskId = ""
  /\ submitPc = "unmounted"

\* nothing outside the engines and the decode paths is running
OthersIdle == PortIdle /\ PageIdle

NoText == <<>>

AwaitPoints == {"await_initial", "await_improvement", "await_verification",
                "await_check", "await_correction"}

Init ==
  /\ options \in [maxIterations : 1..MaxIterationsBound,
                  requiredSuccessfulVerifications : 1..MaxRequiredBound,
                  maxErrorsBeforeGiveUp : 1..MaxErrorsBound]
  /\ pc = "start"
  /\ caller = "initial"
  /\ i = 0
  /\ solution = NoText
  /\ verification = [bugReport |-> NoText, goodVerify |-> NoText]
  /\ initial = NoText
  /\ verificationOutput = NoText
  /\ correctCount = 0
  /\ errorCount = 0
  /\ iterations = <<>>
  /\ verifications = <<>>
  /\ events = <<>>
  /\ calls = <<>>
  /\ resolved = 0
  /\ verifyLog = <<>>
  /\ result = NoResult
  /\ UltraIdle
  /\ DecodeIdle
  /\ OthersIdle

Start_IssuesTwoCalls ==
  /\ pc = "start"
  /\ events' = events \o
       << [type |-> "init"],
          [type |-> "thinking", iteration |-> 0, phase |-> "initial-exploration"] >>
  /\ calls' = calls \o <<"improvement", "initial">>
  /\ pc' = "await_initial"
  /\ UNCHANGED <<options, caller, i, solution, verification, initial,
                 verificationOutput, correctCount, errorCount, iterations,
                 verifications, verifyLog, result>>
  /\ UNCHANGED resolved
  /\ UNCHANGED <<uvars, dvars, hvars>>

(***************************************************************************)
(* run(): emit init, enter initialExploration, issue the first call.       *)
(***************************************************************************)
Start ==
  /\ pc = "start"
  /\ events' = events \o
       << [type |-> "init"],
          [type |-> "thinking", iteration |-> 0, phase |-> "initial-exploration"] >>
  /\ calls' = Append(calls, "initial")
  /\ pc' = "await_initial"
  /\ UNCHANGED <<options, caller, i, solution, verification, initial,
                 verificationOutput, correctCount, errorCount, iterations,
                 verifications, verifyLog, result>>
  /\ UNCHANGED resolved
  /\ UNCHANGED <<uvars, dvars, hvars>>

(***************************************************************************)
(* initialExploration: the first solution arrives; the improvement call    *)
(* is issued.                                                              *)
(***************************************************************************)
InitialResponse ==
  /\ pc = "await_initial"
  /\ \E firstSolution \in FirstSolutionTexts :
       events' = events \o
         << [type |-> "solution", solution |-> firstSolution, iteration |-> 0],
            [type |-> "thinking", iteration |-> 0, phase |-> "self-improvement"] >>
  /\ calls' = Append(calls, "improvement")
  /\ pc' = "await_improvement"
  /\ UNCHANGED <<options, caller, i, solution, verification, initial,
                 verificationOutput, correctCount, errorCount, iterations,
                 verifications, verifyLog, result>>
  /\ resolved' = resolved + 1
  /\ UNCHANGED <<uvars, dvars, hvars>>

(***************************************************************************)
(* initialExploration: the improved solution arrives; verifySolution is    *)
(* entered and issues its first call.                                      *)
(***************************************************************************)
ImprovementResponse ==
  /\ pc = "await_improvement"
  /\ \E improvedSolution \in SolutionTexts :
       /\ solution' = improvedSolution
       /\ initial' = improvedSolution
       /\ events' = events \o
            << [type |-> "solution", solution |-> improvedSolution, iteration |-> 0],
               [type |-> "progress", message |-> "Verifying solution..."] >>
  /\ caller' = "initial"
  /\ calls' = Append(calls, "verification")
  /\ pc' = "await_verification"
  /\ UNCHANGED <<options, i, verification, verificationOutput, correctCount,
                 errorCount, iterations, verifications, verifyLog, result>>
  /\ resolved' = resolved + 1
  /\ UNCHANGED <<uvars, dvars, hvars>>

(***************************************************************************)
(* verifySolution: the raw verdict arrives; the yes/no check is issued.    *)
(***************************************************************************)
VerificationResponse ==
  /\ pc = "await_verification"
  /\ \E text \in VerdictTexts : verificationOutput' = text
  /\ calls' = Append(calls, "check")
  /\ pc' = "await_check"
  /\ UNCHANGED <<options, caller, i, solution, verification, initial,
                 correctCount, errorCount, iterations, verifications, events,
                 verifyLog, result>>
  /\ resolved' = resolved + 1
  /\ UNCHANGED <<uvars, dvars, hvars>>

(***************************************************************************)
(* verifySolution returns.  In initialExploration the caller emits the     *)
(* verification event for iteration 0 and run() initialises its counters;  *)
(* in the main loop the caller emits the event for i + 1 and the loop      *)
(* variable is incremented.                                                *)
(***************************************************************************)
CheckResponse ==
  /\ pc = "await_check"
  /\ \E goodVerify \in JudgmentTexts :
       LET v == [bugReport |-> BugReportFor(verificationOutput, goodVerify),
                 goodVerify |-> goodVerify]
       IN /\ verification' = v
          /\ verifyLog' = Append(verifyLog,
               [solution |-> solution,
                submitted |-> extractDetailedSolution(
                                solution, extractDetailedSolutionMarker, TRUE),
                goodVerify |-> goodVerify,
                passed |-> Passed(goodVerify)])
          /\ IF caller = "initial"
             THEN /\ events' = Append(events,
                       [type |-> "verification", passed |-> Passed(goodVerify),
                        iteration |-> 0])
                  /\ errorCount' = 0
                  /\ correctCount' = InitialCorrectCount(Passed(goodVerify))
                  /\ i' = 0
             ELSE /\ events' = Append(events,
                       [type |-> "verification", passed |-> Passed(goodVerify),
                        iteration |-> i + 1])
                  /\ i' = i + 1
                  /\ UNCHANGED <<errorCount, correctCount>>
  /\ verificationOutput' = NoText
  /\ pc' = "loop"
  /\ UNCHANGED <<options, caller, solution, initial, iterations,
                 verifications, calls, result>>
  /\ resolved' = resolved + 1
  /\ UNCHANGED <<uvars, dvars, hvars>>

LoopPass_NoBreak ==
  /\ pc = "loop"
  /\ IF LoopContinues(i, options.maxIterations)
     THEN LET passed == Passed(verification.goodVerify)
              v == [passed |-> passed,
                    bugReport |-> verification.bugReport,
                    goodVerify |-> verification.goodVerify]
          IN /\ verifications' = Append(verifications, v)
             /\ iterations' = Append(iterations,
                  [iteration |-> IterationIndex(i), solution |-> solution,
                   verification |-> v,
                   status |-> IF passed THEN "completed" ELSE "correcting"])
             /\ IF ~passed
                THEN /\ correctCount' = CorrectCountAfterFail(correctCount)
                     /\ errorCount' = errorCount + 1
                     /\ IF TooManyErrors(errorCount + 1, options.maxErrorsBeforeGiveUp)
                        THEN /\ events' = Append(events,
                                  [type |-> "failure", reason |-> TooManyErrorsReason])
                             /\ calls' = Append(calls, "correction")
                             /\ pc' = "await_correction"
                        ELSE /\ events' = Append(events,
                                  [type |-> "correction", iteration |-> i])
                             /\ calls' = Append(calls, "correction")
                             /\ pc' = "await_correction"
                ELSE /\ correctCount' = CorrectCountAfterPass(correctCount)
                     /\ errorCount' = 0
                     /\ pc' = "tail"
                     /\ UNCHANGED <<events, calls>>
     ELSE /\ pc' = "after_loop"
          /\ UNCHANGED <<verifications, iterations, correctCount, errorCount,
                         events, calls>>
  /\ UNCHANGED <<options, caller, i, solution, verification, initial,
                 verificationOutput, verifyLog, result>>
  /\ UNCHANGED resolved
  /\ UNCHANGED <<uvars, dvars, hvars>>

(***************************************************************************)
(* One pass of the main loop from the loop test to the next await: record  *)
(* the verification and the iteration, then take the failed or the passed  *)
(* branch.                                                                 *)
(***************************************************************************)
LoopPass ==
  /\ pc = "loop"
  /\ IF LoopContinues(i, options.maxIterations)
     THEN LET passed == Passed(verification.goodVerify)
              v == [passed |-> passed,
                    bugReport |-> verification.bugReport,
                    goodVerify |-> verification.goodVerify]
          IN /\ verifications' = Append(verifications, v)
             /\ iterations' = Append(iterations,
                  [iteration |-> IterationIndex(i), solution |-> solution,
                   verification |-> v,
                   status |-> IF passed THEN "completed" ELSE "correcting"])
             /\ IF ~passed
                THEN /\ correctCount' = CorrectCountAfterFail(correctCount)
                     /\ errorCount' = errorCount + 1
                     /\ IF TooManyErrors(errorCount + 1, options.maxErrorsBeforeGiveUp)
                        THEN /\ events' = Append(events,
                                  [type |-> "failure", reason |-> TooManyErrorsReason])
                             /\ pc' = "after_loop"
                             /\ UNCHANGED calls
                        ELSE /\ events' = Append(events,
                                  [type |-> "correction", iteration |-> i])
                             /\ calls' = Append(calls, "correction")
                             /\ pc' = "await_correction"
                ELSE /\ correctCount' = CorrectCountAfterPass(correctCount)
                     /\ errorCount' = 0
                     /\ pc' = "tail"
                     /\ UNCHANGED <<events, calls>>
     ELSE /\ pc' = "after_loop"
          /\ UNCHANGED <<verifications, iterations, correctCount, errorCount,
                         events, calls>>
  /\ UNCHANGED <<options, caller, i, solution, verification, initial,
                 verificationOutput, verifyLog, result>>
  /\ UNCHANGED resolved
  /\ UNCHANGED <<uvars, dvars, hvars>>

CorrectionResponse_Silent ==
  /\ pc = "await_correction"
  /\ \E text \in SolutionTexts : solution' = text
  /\ pc' = "tail"
  /\ UNCHANGED <<options, caller, i, verification, initial, verificationOutput,
                 correctCount, errorCount, iterations, verifications, calls,
                 verifyLog, result, events>>
  /\ resolved' = resolved + 1
  /\ UNCHANGED <<uvars, dvars, hvars>>

(***************************************************************************)
(* The corrected solution arrives and becomes the candidate.               *)
(***************************************************************************)
CorrectionResponse ==
  /\ pc = "await_correction"
  /\ \E text \in SolutionTexts :
       /\ solution' = text
       /\ events' = Append(events,
            [type |-> "solution", solution |-> text, iteration |-> i + 1])
  /\ pc' = "tail"
  /\ UNCHANGED <<options, caller, i, verification, initial, verificationOutput,
                 correctCount, errorCount, iterations, verifications, calls,
                 verifyLog, result>>
  /\ resolved' = resolved + 1
  /\ UNCHANGED <<uvars, dvars, hvars>>

LoopTail_BackToInitial ==
  /\ pc = "tail"
  /\ IF EnoughSuccesses(correctCount, options.requiredSuccessfulVerifications)
     THEN /\ events' = Append(events,
               [type |-> "success", solution |-> solution, iterations |-> i + 1])
          /\ result' = [mode |-> "deep-think",
                        initialThought |-> initial,
                        iterations |-> iterations,
                        verifications |-> verifications,
                        finalSolution |-> solution,
                        totalIterations |-> i + 1,
                        successfulVerifications |-> correctCount]
          /\ pc' = "done"
          /\ UNCHANGED <<caller, calls>>
     ELSE /\ events' = Append(events,
               [type |-> "progress", message |-> "Verifying solution..."])
          /\ caller' = "loop"
          /\ calls' = Append(calls, "verification")
          /\ pc' = "await_verification"
          /\ UNCHANGED result
  /\ solution' = initial
  /\ UNCHANGED <<options, i, verification, initial,
                 verificationOutput, correctCount, errorCount, iterations,
                 verifications, verifyLog>>
  /\ UNCHANGED resolved
  /\ UNCHANGED <<uvars, dvars, hvars>>

(***************************************************************************)
(* End of a loop pass: return Success when the streak is long enough,      *)
(* otherwise verify the candidate again.                                   *)
(***************************************************************************)
LoopTail ==
  /\ pc = "tail"
  /\ IF EnoughSuccesses(correctCount, options.requiredSuccessfulVerifications)
     THEN /\ events' = Append(events,
               [type |-> "success", solution |-> solution, iterations |-> i + 1])
          /\ result' = [mode |-> "deep-think",
                        initialThought |-> initial,
                        iterations |-> iterations,
                        verifications |-> verifications,
                        finalSolution |-> solution,
                        totalIterations |-> i + 1,
                        successfulVerifications |-> correctCount]
          /\ pc' = "done"
          /\ UNCHANGED <<caller, calls>>
     ELSE /\ events' = Append(events,
               [type |-> "progress", message |-> "Verifying solution..."])
          /\ caller' = "loop"
          /\ calls' = Append(calls, "verification")
          /\ pc' = "await_verification"
          /\ UNCHANGED result
  /\ UNCHANGED <<options, i, solution, verification, initial,
                 verificationOutput, correctCount, errorCount, iterations,
                 verifications, verifyLog>>
  /\ UNCHANGED resolved
  /\ UNCHANGED <<uvars, dvars, hvars>>

AfterLoop_Throws ==
  /\ pc = "after_loop"
  /\ events' = Append(events,
       [type |-> "failure", reason |-> MaxIterationsReason])
  /\ pc' = "thrown"
  /\ UNCHANGED <<options, caller, i, solution, verification, initial,
                 verificationOutput, correctCount, errorCount, iterations,
                 verifications, calls, verifyLog, result>>
  /\ UNCHANGED resolved
  /\ UNCHANGED <<uvars, dvars, hvars>>

(***************************************************************************)
(* After the loop (left by its test or by break): emit failure and return. *)
(***************************************************************************)
AfterLoop ==
  /\ pc = "after_loop"
  /\ events' = Append(events,
       [type |-> "failure", reason |-> MaxIterationsReason])
  /\ result' = [mode |-> "deep-think",
                initialThought |-> initial,
                iterations |-> iterations,
                verifications |-> verifications,
                finalSolution |-> solution,
                totalIterations |->
                  ExhaustedTotalIterations(i, options.maxIterations),
                successfulVerifications |-> correctCount]
  /\ pc' = "done"
  /\ UNCHANGED <<options, caller, i, solution, verification, initial,
                 verificationOutput, correctCount, errorCount, iterations,
                 verifications, calls, verifyLog>>
  /\ UNCHANGED resolved
  /\ UNCHANGED <<uvars, dvars, hvars>>

GenerationFails_RetriesOnce ==
  /\ pc \in AwaitPoints
  /\ calls' = Append(calls, calls[Len(calls)])
  /\ pc' = "thrown"
  /\ UNCHANGED <<options, caller, i, solution, verification, initial,
                 verificationOutput, correctCount, errorCount, iterations,
                 verifications, events, verifyLog, result>>
  /\ resolved' = resolved + 1
  /\ UNCHANGED <<uvars, dvars, hvars>>

(***************************************************************************)
(* The outstanding generation call fails: the rejection propagates out of  *)
(* run(), which has no try/catch.                                          *)
(***************************************************************************)
GenerationFails ==
  /\ pc \in AwaitPoints
  /\ pc' = "thrown"
  /\ UNCHANGED <<options, caller, i, solution, verification, initial,
                 verificationOutput, correctCount, errorCount, iterations,
                 verifications, events, calls, verifyLog, result>>
  /\ resolved' = resolved + 1
  /\ UNCHANGED <<uvars, dvars, hvars>>

Next ==
  \/ Start
  \/ InitialResponse
  \/ ImprovementResponse
  \/ VerificationResponse
  \/ CheckResponse
  \/ LoopPass
  \/ CorrectionResponse
  \/ LoopTail
  \/ AfterLoop
  \/ GenerationFails

Spec == Init /\ [][Next]_vars

\* every generation call returns, and the engine keeps running
Returns ==
  \/ Start
  \/ InitialResponse
  \/ ImprovementResponse
  \/ VerificationResponse
  \/ CheckResponse
  \/ LoopPass
  \/ CorrectionResponse
  \/ LoopTail
  \/ AfterLoop

FairSpec == Spec /\ WF_vars(Returns)

(***************************************************************************)
(* Vocabulary of the properties.                                           *)
(***************************************************************************)
K == options.requiredSuccessfulVerifications

LastEvent == events[Len(events)]

Returned == pc = "done"

Succeeded == Returned /\ LastEvent.type = "success"

Failed == Returned /\ LastEvent.type = "failure"

TerminalEvents ==
  {k \in DOMAIN events : events[k].type \in {"success", "failure"}}

FailureEvents == {k \in DOMAIN events : events[k].type = "failure"}

TooManyErrorsEmitted ==
  \E k \in FailureEvents : events[k].reason = TooManyErrorsReason

\* verification calls (verifySolution invocations) that have returned
AllPassed == \A k \in DOMAIN verifyLog : verifyLog[k].passed

AllFailed == \A k \in DOMAIN verifyLog : ~verifyLog[k].passed

HasFail == \E k \in DOMAIN verifyLog : ~verifyLog[k].passed

LastVerifyFailed == verifyLog # <<>> /\ ~verifyLog[Len(verifyLog)].passed

\* number of passing verification calls since the last failed one
TrailingPasses ==
  Cardinality({k \in DOMAIN verifyLog :
                 \A j \in k..Len(verifyLog) : verifyLog[j].passed})

\* number of failed verification calls before the first passing one
LeadingFails ==
  Cardinality({k \in DOMAIN verifyLog :
                 \A j \in 1..k : ~verifyLog[j].passed})

CorrectionCalls == {k \in DOMAIN calls : calls[k] = "correction"}

\* the last verification that arrived has been examined by a loop pass
LastVerifyExamined == Len(verifications) = Len(verifyLog)

(***************************************************************************)
(* C1: a run in which every verification call passes terminates Success    *)
(* and its result has successfulVerifications = K.                         *)
(* The code counts the initial verification twice (once when correctCount  *)
(* is initialised, once in pass 0), so K = 1 returns 2.                    *)
(***************************************************************************)
C1_AllPassCountIsK ==
  (Returned /\ AllPassed) =>
    (LastEvent.type = "success" /\ result.successfulVerifications = K)

(***************************************************************************)
(* C2: a run in which every verification call passes issues exactly K      *)
(* verification calls after the one made during initial exploration.       *)
(***************************************************************************)
C2_AllPassIssuesKCalls ==
  (Returned /\ AllPassed) => Len(verifyLog) - 1 = K

(***************************************************************************)
(* C3: Success is returned only when the final solution has passed K       *)
(* consecutive verification calls, each a separate call on that same       *)
(* solution: the last K verification calls all passed and all judged       *)
(* finalSolution.                                                          *)
(***************************************************************************)
C3_SuccessNeedsKSeparatePasses ==
  Succeeded =>
    /\ Len(verifyLog) >= K
    /\ \A k \in (Len(verifyLog) - K + 1)..Len(verifyLog) :
         /\ verifyLog[k].passed
         /\ verifyLog[k].solution = result.finalSolution

C5_AllFailGivesUp ==
  /\ AllFailed => Cardinality(CorrectionCalls) <= options.maxErrorsBeforeGiveUp
  /\ (Returned /\ AllFailed
        /\ options.maxErrorsBeforeGiveUp <= options.maxIterations) =>
       /\ LastEvent.type = "failure"
       /\ TooManyErrorsEmitted
       /\ errorCount = options.maxErrorsBeforeGiveUp
       /\ Len(iterations) = options.maxErrorsBeforeGiveUp
       /\ Len(verifyLog) = options.maxErrorsBeforeGiveUp

C5_Witness ==
  /\ Returned
  /\ AllFailed
  /\ options.maxErrorsBeforeGiveUp >= 2
  /\ options.maxErrorsBeforeGiveUp <= options.maxIterations
  /\ CorrectionCalls # {}

(***************************************************************************)
(* C6: if over maxIterations passes neither threshold is reached, the run  *)
(* returns Failure and totalIterations = maxIterations.                    *)
(***************************************************************************)
C6_ExhaustionTotalIterations ==
  (Returned /\ ~Succeeded /\ ~TooManyErrorsEmitted) =>
    /\ LastEvent.type = "failure"
    /\ LastEvent.reason = MaxIterationsReason
    /\ Len(iterations) = options.maxIterations
    /\ result.totalIterations = options.maxIterations

C6_Witness ==
  /\ Returned
  /\ ~TooManyErrorsEmitted
  /\ LastEvent.type = "failure"
  /\ options.maxIterations >= 3
  /\ HasFail
  /\ ~AllFailed

(***************************************************************************)
(* C7: verification outcomes of F failures followed by K passes            *)
(* (1 <= F < maxErrorsBeforeGiveUp, F + K <= maxIterations) end in Success *)
(* with F + K Iteration records, totalIterations = F + K and               *)
(* successfulVerifications = K.                                            *)
(***************************************************************************)
FailsThenKPasses ==
  /\ LeadingFails >= 1
  /\ LeadingFails < options.maxErrorsBeforeGiveUp
  /\ LeadingFails + K <= options.maxIterations
  /\ Len(verifyLog) = LeadingFails + K
  /\ TrailingPasses = K

C7_FailsThenPassesSucceeds ==
  (FailsThenKPasses /\ pc \notin {"loop", "tail"}) =>
    /\ Succeeded
    /\ Len(result.iterations) = LeadingFails + K
    /\ result.totalIterations = LeadingFails + K
    /\ result.successfulVerifications = K

\* maxIterations = 5, K = 2, outcomes [fail, pass, pass]
C7_Witness ==
  /\ Returned
  /\ options.maxIterations = 5
  /\ K = 2
  /\ Len(verifyLog) = 3
  /\ ~verifyLog[1].passed /\ verifyLog[2].passed /\ verifyLog[3].passed
  /\ Len(result.iterations) = 3

(***************************************************************************)
(* C8: when every generation call returns, the run terminates, and no run  *)
(* executes more than maxIterations loop passes.                           *)
(***************************************************************************)
C8_Terminates ==
  /\ [](Len(iterations) <= options.maxIterations)
  /\ ([](pc # "thrown") => <>(pc = "done"))

C8_Witness ==
  /\ Returned
  /\ options.maxIterations >= 2
  /\ Len(iterations) = options.maxIterations

(***************************************************************************)
(* C9: exhaustion (maxIterations passes, or maxErrorsBeforeGiveUp failed   *)
(* verifications in a row) is never thrown: run() returns a result record  *)
(* and a failure event with a reason was emitted.                          *)
(***************************************************************************)
Exhausted ==
  \/ errorCount >= options.maxErrorsBeforeGiveUp
  \/ i >= options.maxIterations

C9_ExhaustionReturns ==
  Exhausted =>
    /\ pc \in {"loop", "after_loop", "done"}
    /\ Returned =>
         /\ result.mode = "deep-think"
         /\ result.finalSolution = solution
         /\ \E k \in FailureEvents :
              events[k].reason \in {TooManyErrorsReason, MaxIterationsReason}

C9_Witness ==
  /\ Returned
  /\ errorCount >= options.maxErrorsBeforeGiveUp
  /\ result.mode = "deep-think"

C11_FailurePropagates ==
  /\ [](pc = "thrown" => (result = NoResult /\ TerminalEvents = {}))
  /\ [][(pc = "thrown" \/ pc' = "thrown") => calls' = calls]_vars

\* the correction call of a later pass failed
C11_Witness ==
  /\ pc = "thrown"
  /\ calls[Len(calls)] = "correction"
  /\ Len(iterations) >= 2

(***************************************************************************)
(*                                                                         *)
(* UltraThinkEngine: plan, agent configurations, parallel agents,          *)
(* synthesis.                                                              *)
(*                                                                         *)
(***************************************************************************)

(***************************************************************************)
(* Bound of the multi-agent model: the longest list of agent               *)
(* configurations the generation capability answers with.                  *)
(***************************************************************************)
MaxConfigs == 2

\* largest iteration number of a thinking event considered
MaxThinkingIteration == 40

(***************************************************************************)
(* JavaScript values that generateAgentConfigs handles.                    *)
(***************************************************************************)
JsUndefined == [kind |-> "undefined", hasConfigs |-> FALSE, items |-> <<>>]

JsNull == [kind |-> "null", hasConfigs |-> FALSE, items |-> <<>>]

JsArray(list) == [kind |-> "array", hasConfigs |-> FALSE, items |-> list]

\* an object with a configs field holding a list
JsObjectWithConfigs(list) ==
  [kind |-> "object", hasConfigs |-> TRUE, items |-> list]

\* an object without a configs field (its list sits under another name)
JsObjectWithoutConfigs(list) ==
  [kind |-> "object", hasConfigs |-> FALSE, items |-> list]

IsArray(value) == value.kind = "array"

(***************************************************************************)
(* Agent configurations the generation capability may answer with.  The    *)
(* agentId is whatever the model wrote: two entries may carry the same.    *)
(***************************************************************************)
AgentConfigs ==
  { [agentId |-> "agent_01", approach |-> "algebra", specificPrompt |-> "use algebra"],
    [agentId |-> "agent_02", approach |-> "geometry", specificPrompt |-> "use geometry"] }

RECURSIVE SeqsUpTo(_, _)
SeqsUpTo(S, n) ==
  IF n = 0 THEN { <<>> }
  ELSE LET shorter == SeqsUpTo(S, n - 1)
       IN shorter \cup { Append(q, x) : q \in shorter, x \in S }

ConfigLists == SeqsUpTo(AgentConfigs, MaxConfigs)

(***************************************************************************)
(* Response texts of the textual fallback.  A text is a sequence of        *)
(* elements: a character, or a whole JSON document (standing for the       *)
(* characters that JSON.parse reads as that value).                        *)
(***************************************************************************)
Ch(c) == [c |-> c, doc |-> JsUndefined]

Doc(value) == [c |-> "json", doc |-> value]

Chars(str) == [k \in 1..Len(str) |-> Ch(str[k])]

\* the grave accent character (U+0060), which a TLA+ string cannot hold
BackTick == "U+0060"

JsonFence == Chars(<<BackTick, BackTick, BackTick, "j","s","o","n">>)

Fence == Chars(<<BackTick, BackTick, BackTick>>)

NewLine == Chars(<<"\n">>)

StartsWith(text, prefix) ==
  /\ Len(prefix) <= Len(text)
  /\ SubSeq(text, 1, Len(prefix)) = prefix

EndsWith(text, suffix) ==
  /\ Len(suffix) <= Len(text)
  /\ SubSeq(text, Len(text) - Len(suffix) + 1, Len(text)) = suffix

\* String.prototype.trim on a response text
RECURSIVE TextTrim(_)
TextTrim(text) ==
  IF text # <<>> /\ text[1].c \in WhiteSpace
  THEN TextTrim(Tail(text))
  ELSE IF text # <<>> /\ text[Len(text)].c \in WhiteSpace
       THEN TextTrim(SubSeq(text, 1, Len(text) - 1))
       ELSE text

StripFences_PlainOnly(text) ==
  LET t0 == TextTrim(text)
      t1 == IF StartsWith(t0, Fence) THEN SubSeq(t0, 4, Len(t0)) ELSE t0
      t2 == IF EndsWith(t1, Fence) THEN SubSeq(t1, 1, Len(t1) - 3) ELSE t1
  IN TextTrim(t2)

\* the fence removal of generateAgentConfigs
StripFences(text) ==
  LET t0 == TextTrim(text)
      t1 == IF StartsWith(t0, JsonFence) THEN SubSeq(t0, 8, Len(t0))
            ELSE IF StartsWith(t0, Fence) THEN SubSeq(t0, 4, Len(t0))
            ELSE t0
      t2 == IF EndsWith(t1, Fence) THEN SubSeq(t1, 1, Len(t1) - 3) ELSE t1
  IN TextTrim(t2)

\* JSON.parse succeeds on one document with white space around it
JsonParses(text) ==
  LET t == TextTrim(text) IN Len(t) = 1 /\ t[1].c = "json"

JsonParse(text) == TextTrim(text)[1].doc

PreviewLength == 200

\* jsonText.substring(0, 200)
Preview(text) ==
  SubSeq(text, 1, IF Len(text) < PreviewLength THEN Len(text) ELSE PreviewLength)

\* Array.isArray(parsed) ? parsed : parsed.configs || parsed
\* (reading .configs of null throws inside the try block)
PickConfigs(parsed) ==
  IF IsArray(parsed) THEN parsed
  ELSE IF parsed.kind = "object" /\ parsed.hasConfigs THEN JsArray(parsed.items)
  ELSE parsed

PickThrows(parsed) == parsed.kind = "null"

\* the outcome of the textual fallback on a response text
TextDecode(text) ==
  LET jsonText == StripFences(text)
  IN IF JsonParses(jsonText) /\ ~PickThrows(JsonParse(jsonText))
     THEN [ok |-> TRUE, value |-> PickConfigs(JsonParse(jsonText)),
           error |-> NoError]
     ELSE [ok |-> FALSE, value |-> JsUndefined,
           error |-> [kind |-> "parse", stage |-> "agentConfig",
                      preview |-> Preview(jsonText)]]

\* the outcome of the structured path on a schema-valid object {configs: L}
ObjectDecode(list) == JsArray(list)

FencedJson(value) == JsonFence \o NewLine \o <<Doc(value)>> \o NewLine \o Fence

FencedPlain(value) == Fence \o NewLine \o <<Doc(value)>> \o NewLine \o Fence

ResponseTexts ==
  { <<Doc(JsArray(list))>> : list \in ConfigLists }
  \cup { FencedJson(JsArray(list)) : list \in ConfigLists }
  \cup { FencedPlain(JsObjectWithConfigs(list)) : list \in ConfigLists }
  \cup { FencedJson(JsObjectWithoutConfigs(list)) : list \in ConfigLists }
  \cup { <<Doc(JsNull)>>,
         Chars(<<"S","o","r","r","y">>),
         Chars(<<BackTick, BackTick, BackTick, "J","S","O","N">>) \o NewLine
           \o <<Doc(JsArray(<<>>))>> \o NewLine \o Fence }

(***************************************************************************)
(* Options of a multi-agent run.  numAgents = 0 stands for an unset (or    *)
(* zero) numAgents: both are falsy in `this.options.numAgents ? ... : ...`.*)
(* A cap ranges below MaxConfigs, so it is met, exceeded or not reached    *)
(* by the derived lists.  The agents' engines make one loop pass, enough   *)
(* for a success, a correction and an exhaustion.                          *)
(***************************************************************************)
UltraOptionSets ==
  [maxIterations : {1},
   requiredSuccessfulVerifications : {1},
   maxErrorsBeforeGiveUp : {2},
   numAgents : 0..(MaxConfigs - 1),
   onAgentUpdate : {"recorder"}]

PlanText == <<"p","l","a","n">>

\* texts an agent's improvement and correction calls answer with
AgentSolutionTexts ==
  { <<"S"," ">> \o extractDetailedSolutionMarker \o <<" ","x"," ">> }

SynthesisTexts == { <<"f","i","n","a","l">>, <<"m","e","r","g","e","d">> }

GenerationErrorMessage == "generation call failed"

\* what a rejected call throws: an Error with its message, or another value
ThrownValues ==
  {[isError |-> TRUE, message |-> GenerationErrorMessage],
   [isError |-> FALSE, message |-> ""]}

\* err instanceof Error ? err.message : "Unknown error"
ErrorMessageOf(err) == IF err.isError THEN err.message ELSE "Unknown error"

(***************************************************************************)
(* A call of onAgentUpdate: the agentId passed and the partial             *)
(* AgentResult; `has` names the fields the object literal carries.         *)
(***************************************************************************)
NoPartial ==
  [agentId |-> "", has |-> {}, approach |-> "", specificPrompt |-> "",
   status |-> "", progress |-> 0, solution |-> NoText, verifications |-> <<>>,
   error |-> ""]

ThinkingProgress_FromZero(iteration) ==
  IF iteration * 2 < 80 THEN iteration * 2 ELSE 80

\* Math.min(20 + event.data.iteration * 2, 80)
ThinkingProgress(iteration) ==
  IF 20 + iteration * 2 < 80 THEN 20 + iteration * 2 ELSE 80

\* onAgentProgress(config.agentId, partial)
Notify(r, partial) ==
  [r EXCEPT !.updates = Append(@, [partial EXCEPT !.agentId = r.config.agentId])]

(***************************************************************************)
(* runAgent: the onProgress handler given to the agent's DeepThinkEngine.  *)
(* It writes the agent's own cell and relays a partial update.             *)
(***************************************************************************)
OnProgress(r, ev) ==
  IF ev.type = "thinking"
  THEN Notify([r EXCEPT !.cell.progress = ThinkingProgress(ev.iteration),
                        !.cell.status = "thinking"],
              [NoPartial EXCEPT !.has = {"progress", "status"},
                                !.progress = ThinkingProgress(ev.iteration),
                                !.status = "thinking"])
  ELSE IF ev.type = "verification"
  THEN Notify([r EXCEPT !.cell.status = "verifying"],
              [NoPartial EXCEPT !.has = {"status"}, !.status = "verifying"])
  ELSE IF ev.type = "success"
  THEN Notify([r EXCEPT !.cell.status = "completed", !.cell.progress = 100],
              [NoPartial EXCEPT !.has = {"status", "progress"},
                                !.status = "completed", !.progress = 100])
  ELSE IF ev.type = "failure"
  THEN Notify([r EXCEPT !.cell.status = "failed", !.cell.error = ev.reason],
              [NoPartial EXCEPT !.has = {"status", "error"},
                                !.status = "failed", !.error = ev.reason])
  ELSE r

Event(type, iteration, reason) ==
  [type |-> type, iteration |-> iteration, reason |-> reason]

(***************************************************************************)
(* runAgent after `await engine.run()` returned a DeepThinkResult.         *)
(***************************************************************************)
RunReturned(r, outcome) ==
  Notify([r EXCEPT !.apc = "finished",
                   !.outcome = outcome,
                   !.cell.solution = r.solution,
                   !.cell.hasSolution = TRUE,
                   !.cell.verifications = r.verifs,
                   !.cell.status = "completed",
                   !.cell.progress = 100],
         [NoPartial EXCEPT !.has = {"status", "progress", "solution", "verifications"},
                           !.status = "completed", !.progress = 100,
                           !.solution = r.solution,
                           !.verifications = r.verifs])

RunThrew_NotRecorded(r, message) ==
  [r EXCEPT !.apc = "finished", !.outcome = "thrown"]

(***************************************************************************)
(* runAgent's catch block: the agent's run threw.                          *)
(***************************************************************************)
RunThrew(r, message) ==
  Notify([r EXCEPT !.apc = "finished",
                   !.outcome = "thrown",
                   !.cell.status = "failed",
                   !.cell.error = message],
         [NoPartial EXCEPT !.has = {"status", "error"},
                           !.status = "failed", !.error = message])

(***************************************************************************)
(* The agent's DeepThinkEngine.run from a synchronous program point to its *)
(* next await or to its end (the same code as LoopPass, LoopTail and       *)
(* AfterLoop, on the agent's own state).                                   *)
(***************************************************************************)
RECURSIVE Continue(_, _)
Continue(r, o) ==
  IF r.apc = "loop"
  THEN IF LoopContinues(r.i, o.maxIterations)
       THEN LET r0 == [r EXCEPT !.verifs = Append(@, r.passed)]
            IN IF ~r.passed
               THEN LET r1 == [r0 EXCEPT
                                 !.correctCount = CorrectCountAfterFail(@),
                                 !.errorCount = @ + 1]
                    IN IF TooManyErrors(r1.errorCount, o.maxErrorsBeforeGiveUp)
                       THEN Continue(
                              [OnProgress(r1, Event("failure", 0, TooManyErrorsReason))
                                 EXCEPT !.apc = "after_loop"], o)
                       ELSE [OnProgress(r1, Event("correction", r1.i, ""))
                               EXCEPT !.outstanding = @ + 1,
                                      !.apc = "await_correction"]
               ELSE Continue([r0 EXCEPT
                                !.correctCount = CorrectCountAfterPass(@),
                                !.errorCount = 0,
                                !.apc = "tail"], o)
       ELSE Continue([r EXCEPT !.apc = "after_loop"], o)
  ELSE IF r.apc = "tail"
  THEN IF EnoughSuccesses(r.correctCount, o.requiredSuccessfulVerifications)
       THEN RunReturned(OnProgress(r, Event("success", r.i + 1, "")), "success")
       ELSE [OnProgress(r, Event("progress", 0, ""))
               EXCEPT !.outstanding = @ + 1,
                      !.apc = "await_verification",
                      !.caller = "loop"]
  ELSE IF r.apc = "after_loop"
  THEN RunReturned(OnProgress(r, Event("failure", 0, MaxIterationsReason)),
                   "failure")
  ELSE r

(***************************************************************************)
(* runAgent from its call to the first await of the agent's run: the cell  *)
(* is created, the start is notified, the engine emits init and            *)
(* thinking(0, initial-exploration).                                       *)
(***************************************************************************)
StartAgent(config, configUpdate) ==
  LET r == [config |-> config,
            apc |-> "await_initial",
            caller |-> "initial",
            i |-> 0,
            passed |-> FALSE,
            solution |-> NoText,
            correctCount |-> 0,
            errorCount |-> 0,
            verifs |-> <<>>,
            outstanding |-> 1,
            outcome |-> "running",
            cell |-> [agentId |-> config.agentId,
                      approach |-> config.approach,
                      specificPrompt |-> config.specificPrompt,
                      status |-> "thinking",
                      progress |-> 0,
                      hasSolution |-> FALSE,
                      solution |-> NoText,
                      verifications |-> <<>>,
                      error |-> ""],
            updates |-> <<configUpdate>>]
      started == Notify(r, [NoPartial EXCEPT !.has = {"status", "progress"},
                                             !.status = "thinking",
                                             !.progress = 10])
  IN OnProgress(OnProgress(started, Event("init", 0, "")),
                Event("thinking", 0, ""))

\* the update sent for a selected configuration before the agents start
ConfigUpdate(config) ==
  [NoPartial EXCEPT !.agentId = config.agentId,
                    !.has = {"approach", "specificPrompt"},
                    !.approach = config.approach,
                    !.specificPrompt = config.specificPrompt]

Select_TakeAll(list, numAgents) == list

Select_AlwaysSlices(list, numAgents) ==
  SubSeq(list, 1, IF numAgents < Len(list) THEN numAgents ELSE Len(list))

\* configs.slice(0, numAgents) when numAgents is truthy, else configs

Select(list, numAgents) ==
  IF numAgents # 0
  THEN SubSeq(list, 1, IF numAgents < Len(list) THEN numAgents ELSE Len(list))
  ELSE list

(***************************************************************************)
(* Generation calls of the UltraThinkEngine itself.                        *)
(***************************************************************************)
Issue(stage, api) ==
  Append(ucalls, [stage |-> stage, api |-> api, outcome |-> "pending"])

Resolve(log, outcome) == [log EXCEPT ![Len(log)].outcome = outcome]

GenerationError(stage) == [kind |-> "generation", stage |-> stage, preview |-> <<>>]

TypeError == [kind |-> "TypeError", stage |-> "run", preview |-> <<>>]

UProgress(message, n) == [type |-> "progress", message |-> message, n |-> n]

UltraInit ==
  /\ uoptions \in UltraOptionSets
  /\ upc = "start"
  /\ configs = JsUndefined
  /\ selectedConfigs = <<>>
  /\ agents = <<>>
  /\ uevents = <<>>
  /\ ucalls = <<>>
  /\ uerror = NoError
  /\ uresult = NoResult
  /\ storeAgentResults = <<>>
  /\ consumers = <<>>
  /\ options = NoOptions
  /\ pc = "idle"
  /\ caller = "initial"
  /\ i = 0
  /\ solution = NoText
  /\ verification = [bugReport |-> NoText, goodVerify |-> NoText]
  /\ initial = NoText
  /\ verificationOutput = NoText
  /\ correctCount = 0
  /\ errorCount = 0
  /\ iterations = <<>>
  /\ verifications = <<>>
  /\ events = <<>>
  /\ calls = <<>>
  /\ resolved = 0
  /\ verifyLog = <<>>
  /\ result = NoResult
  /\ DecodeIdle
  /\ OthersIdle

(***************************************************************************)
(* run(): emit init; generatePlan emits progress and issues its call.      *)
(***************************************************************************)
UltraStart ==
  /\ upc = "start"
  /\ uevents' = uevents \o
       << [type |-> "init", message |-> "", n |-> 0],
          UProgress("Generating thinking plan...", 0) >>
  /\ ucalls' = Issue("planning", "generateText")
  /\ upc' = "await_plan"
  /\ UNCHANGED <<uoptions, configs, selectedConfigs, agents, uerror, uresult>>
  /\ UNCHANGED <<svars, dvars, hvars, tvars>>

(***************************************************************************)
(* The plan arrives; generateAgentConfigs emits progress and issues the    *)
(* structured call.                                                        *)
(***************************************************************************)
PlanResponse ==
  /\ upc = "await_plan"
  /\ uevents' = Append(uevents, UProgress("Generating agent configurations...", 0))
  /\ ucalls' = Append(Resolve(ucalls, "ok"),
                      [stage |-> "agentConfig", api |-> "generateObject",
                       outcome |-> "pending"])
  /\ upc' = "await_object"
  /\ UNCHANGED <<uoptions, configs, selectedConfigs, agents, uerror, uresult>>
  /\ UNCHANGED <<svars, dvars, hvars, tvars>>

(***************************************************************************)
(* The receivers of onAgentUpdate.  Started through runUltraThinkMode the   *)
(* callback is the store's updateAgentResult; a consumer per agent merges  *)
(* the same calls into the agent's configuration.                          *)
(***************************************************************************)
\* { ...agent, ...update }
MergePartial(agent, update) ==
  [agentId |-> agent.agentId,
   approach |-> IF "approach" \in update.has THEN update.approach
                                              ELSE agent.approach,
   specificPrompt |-> IF "specificPrompt" \in update.has
                      THEN update.specificPrompt ELSE agent.specificPrompt,
   status |-> IF "status" \in update.has THEN update.status ELSE agent.status,
   progress |-> IF "progress" \in update.has THEN update.progress
                                              ELSE agent.progress,
   hasSolution |-> agent.hasSolution \/ "solution" \in update.has,
   solution |-> IF "solution" \in update.has THEN update.solution
                                              ELSE agent.solution,
   verifications |-> IF "verifications" \in update.has
                     THEN update.verifications ELSE agent.verifications,
   error |-> IF "error" \in update.has THEN update.error ELSE agent.error]

\* state.agentResults.map((agent) => agent.agentId === agentId ? ... : agent)
updateAgentResult(list, agentId, update) ==
  [k \in DOMAIN list |->
     IF list[k].agentId = agentId THEN MergePartial(list[k], update)
                                  ELSE list[k]]

\* the calls of onAgentUpdate in the order they are made
RECURSIVE UpdateAll(_, _)
UpdateAll(list, updates) ==
  IF updates = <<>> THEN list
  ELSE UpdateAll(updateAgentResult(list, updates[1].agentId, updates[1]),
                 Tail(updates))

\* the updates runAgent's step added to the agent's channel
NewUpdates(before, after) ==
  SubSeq(after.updates, Len(before.updates) + 1, Len(after.updates))

\* a consumer's record before any update: the agent's configuration
ConsumerStart(config) ==
  [agentId |-> config.agentId, approach |-> config.approach,
   specificPrompt |-> config.specificPrompt, status |-> "", progress |-> 0,
   hasSolution |-> FALSE, solution |-> NoText, verifications |-> <<>>,
   error |-> ""]

RECURSIVE Flatten(_)
Flatten(seqs) == IF seqs = <<>> THEN <<>> ELSE seqs[1] \o Flatten(Tail(seqs))

\* run() lines 706-725: a configuration update per selected configuration,
\* then runAgent is called for each and runs to its first await
DispatchUpdates(sel) ==
  [k \in 1..Len(sel) |-> ConfigUpdate(sel[k])]
    \o Flatten([k \in 1..Len(sel) |->
                  Tail(StartAgent(sel[k], ConfigUpdate(sel[k])).updates)])

\* the callback receives the updates
Deliver(merging, updates) ==
  IF uoptions.onAgentUpdate = "updateAgentResult"
  THEN /\ storeAgentResults' = UpdateAll(storeAgentResults, updates)
       /\ consumers' = UpdateAll(merging, updates)
  ELSE UNCHANGED tvars

(***************************************************************************)
(* run() from the return of generateAgentConfigs to Promise.all: select,   *)
(* send the configuration updates, emit progress, call runAgent for every  *)
(* selected configuration.  A value that is not an array has no slice /    *)
(* forEach: run() is left with a TypeError.                                *)
(***************************************************************************)
Dispatch(value) ==
  IF IsArray(value)
  THEN LET sel == Select(value.items, uoptions.numAgents)
       IN /\ configs' = value
          /\ selectedConfigs' = sel
          /\ agents' = [k \in 1..Len(sel) |->
                          StartAgent(sel[k], ConfigUpdate(sel[k]))]
          /\ uevents' = Append(uevents,
               UProgress("Running agents in parallel...", Len(sel)))
          /\ upc' = "agents"
          /\ uerror' = uerror
          /\ Deliver([k \in 1..Len(sel) |-> ConsumerStart(sel[k])],
                     DispatchUpdates(sel))
  ELSE /\ configs' = value
       /\ upc' = "thrown"
       /\ uerror' = TypeError
       /\ UNCHANGED <<selectedConfigs, agents, uevents>>
       /\ UNCHANGED tvars

(***************************************************************************)
(* generateObject returns a schema-valid object.                           *)
(***************************************************************************)
ObjectResponse ==
  /\ upc = "await_object"
  /\ ucalls' = Resolve(ucalls, "ok")
  /\ \E list \in ConfigLists : Dispatch(ObjectDecode(list))
  /\ UNCHANGED <<uoptions, uresult>>
  /\ UNCHANGED <<svars, dvars, hvars>>

(***************************************************************************)
(* generateObject throws (the response does not decode against the         *)
(* schema, or the call itself failed): the catch block issues the textual  *)
(* call whatever the error was.                                            *)
(***************************************************************************)
ObjectFails ==
  /\ upc = "await_object"
  /\ \E failure \in {"decode-error", "generation-error"} :
       ucalls' = Append(Resolve(ucalls, failure),
                   [stage |-> "agentConfig", api |-> "generateText",
                    outcome |-> "pending"])
  /\ upc' = "await_text"
  /\ UNCHANGED <<uoptions, configs, selectedConfigs, agents, uevents, uerror,
                 uresult>>
  /\ UNCHANGED <<svars, dvars, hvars, tvars>>

(***************************************************************************)
(* The textual fallback's response arrives and is decoded.                 *)
(***************************************************************************)
TextResponse ==
  /\ upc = "await_text"
  /\ ucalls' = Resolve(ucalls, "ok")
  /\ \E text \in ResponseTexts :
       LET decoded == TextDecode(text)
       IN IF decoded.ok
          THEN Dispatch(decoded.value)
          ELSE /\ upc' = "thrown"
               /\ uerror' = decoded.error
               /\ UNCHANGED <<configs, selectedConfigs, agents, uevents>>
               /\ UNCHANGED tvars
  /\ UNCHANGED <<uoptions, uresult>>
  /\ UNCHANGED <<svars, dvars, hvars>>

(***************************************************************************)
(* A generation call of the UltraThinkEngine fails where no catch block    *)
(* surrounds it: planning, the textual fallback, synthesis.                *)
(***************************************************************************)
UltraCallFails ==
  /\ upc \in {"await_plan", "await_text", "await_synthesis"}
  /\ ucalls' = Resolve(ucalls, "generation-error")
  /\ uerror' = GenerationError(ucalls[Len(ucalls)].stage)
  /\ upc' = "thrown"
  /\ UNCHANGED <<uoptions, configs, selectedConfigs, agents, uevents, uresult>>
  /\ UNCHANGED <<svars, dvars, hvars, tvars>>

(***************************************************************************)
(* Steps of one agent: a generation call of its DeepThinkEngine resolves   *)
(* and the agent runs to its next await or to the end of runAgent.         *)
(***************************************************************************)
AgentStep_SharedResult(a, r) ==
  /\ agents' = [b \in DOMAIN agents |->
                  IF b = a THEN r ELSE [agents[b] EXCEPT !.cell = r.cell]]
  /\ Deliver(consumers, NewUpdates(agents[a], r))
  /\ UNCHANGED <<uoptions, upc, configs, selectedConfigs, uevents, ucalls,
                 uerror, uresult>>
  /\ UNCHANGED <<svars, dvars, hvars>>

\* agent a's continuation ran: only its own record changes
AgentStep(a, r) ==
  /\ agents' = [agents EXCEPT ![a] = r]
  /\ Deliver(consumers, NewUpdates(agents[a], r))
  /\ UNCHANGED <<uoptions, upc, configs, selectedConfigs, uevents, ucalls,
                 uerror, uresult>>
  /\ UNCHANGED <<svars, dvars, hvars>>

AgentInitialResponse ==
  /\ upc = "agents"
  /\ \E a \in DOMAIN agents :
       /\ agents[a].apc = "await_initial"
       /\ AgentStep(a,
            [OnProgress(OnProgress(agents[a], Event("solution", 0, "")),
                        Event("thinking", 0, ""))
               EXCEPT !.outstanding = @ - 1 + 1,
                      !.apc = "await_improvement"])

AgentImprovementResponse ==
  /\ upc = "agents"
  /\ \E a \in DOMAIN agents :
       /\ agents[a].apc = "await_improvement"
       /\ \E text \in AgentSolutionTexts :
            AgentStep(a,
              [OnProgress(OnProgress(agents[a], Event("solution", 0, "")),
                          Event("progress", 0, ""))
                 EXCEPT !.solution = text,
                        !.caller = "initial",
                        !.outstanding = @ - 1 + 1,
                        !.apc = "await_verification"])

AgentVerificationResponse ==
  /\ upc = "agents"
  /\ \E a \in DOMAIN agents :
       /\ agents[a].apc = "await_verification"
       /\ AgentStep(a, [agents[a] EXCEPT !.outstanding = @ - 1 + 1,
                                         !.apc = "await_check"])

AgentCheckResponse ==
  /\ upc = "agents"
  /\ \E a \in DOMAIN agents :
       /\ agents[a].apc = "await_check"
       /\ \E goodVerify \in JudgmentTexts :
            LET r == agents[a]
                passed == Passed(goodVerify)
                r1 == IF r.caller = "initial"
                      THEN [OnProgress(r, Event("verification", 0, ""))
                              EXCEPT !.passed = passed,
                                     !.outstanding = @ - 1,
                                     !.errorCount = 0,
                                     !.correctCount = InitialCorrectCount(passed),
                                     !.i = 0,
                                     !.apc = "loop"]
                      ELSE [OnProgress(r, Event("verification", r.i + 1, ""))
                              EXCEPT !.passed = passed,
                                     !.outstanding = @ - 1,
                                     !.i = r.i + 1,
                                     !.apc = "loop"]
            IN AgentStep(a, Continue(r1, uoptions))

AgentCorrectionResponse ==
  /\ upc = "agents"
  /\ \E a \in DOMAIN agents :
       /\ agents[a].apc = "await_correction"
       /\ \E text \in AgentSolutionTexts :
            LET r == agents[a]
                r1 == [OnProgress(r, Event("solution", r.i + 1, ""))
                         EXCEPT !.solution = text,
                                !.outstanding = @ - 1,
                                !.apc = "tail"]
            IN AgentStep(a, Continue(r1, uoptions))

\* a generation call of the agent's run fails: engine.run() throws
AgentCallFails ==
  /\ upc = "agents"
  /\ \E a \in DOMAIN agents :
       /\ agents[a].apc \in AwaitPoints
       /\ \E err \in ThrownValues :
            AgentStep(a, RunThrew([agents[a] EXCEPT !.outstanding = @ - 1],
                                  ErrorMessageOf(err)))

AllAgentsFinished == \A a \in DOMAIN agents : agents[a].apc = "finished"

Join_Early ==
  /\ upc = "agents"
  /\ \E a \in DOMAIN agents : agents[a].apc = "finished"
  /\ uevents' = Append(uevents, UProgress("Synthesizing results...", 0))
  /\ ucalls' = Issue("synthesis", "generateText")
  /\ upc' = "await_synthesis"
  /\ UNCHANGED <<uoptions, configs, selectedConfigs, agents, uerror, uresult>>
  /\ UNCHANGED <<svars, dvars, hvars, tvars>>

(***************************************************************************)
(* Promise.all resolves once every runAgent promise has resolved; run()    *)
(* emits progress and issues the synthesis call.                           *)
(***************************************************************************)
Join ==
  /\ upc = "agents"
  /\ AllAgentsFinished
  /\ uevents' = Append(uevents, UProgress("Synthesizing results...", 0))
  /\ ucalls' = Issue("synthesis", "generateText")
  /\ upc' = "await_synthesis"
  /\ UNCHANGED <<uoptions, configs, selectedConfigs, agents, uerror, uresult>>
  /\ UNCHANGED <<svars, dvars, hvars, tvars>>

CompletedAgents_CountsAll(cells) == Len(cells)

\* agentResults.filter((r) => r.status === "completed").length
CompletedAgents(cells) ==
  Cardinality({k \in DOMAIN cells : cells[k].status = "completed"})

SynthesisResponse_FirstAgent ==
  /\ upc = "await_synthesis"
  /\ ucalls' = Resolve(ucalls, "ok")
  /\ \E synthesis \in SynthesisTexts :
       /\ uevents' = Append(uevents,
            [type |-> "success", solution |-> synthesis, iterations |-> 1])
       /\ uresult' =
            LET agentResults == [k \in DOMAIN agents |-> agents[k].cell]
            IN [mode |-> "ultra-think",
                plan |-> PlanText,
                agentResults |-> agentResults,
                synthesis |-> synthesis,
                finalSolution |-> IF agents # <<>>
                                  THEN agents[1].cell.solution ELSE NoText,
                totalAgents |-> Len(selectedConfigs),
                completedAgents |-> CompletedAgents(agentResults)]
  /\ upc' = "done"
  /\ UNCHANGED <<uoptions, configs, selectedConfigs, agents, uerror>>
  /\ UNCHANGED <<svars, dvars, hvars, tvars>>

(***************************************************************************)
(* The synthesis arrives: emit success and return the UltraThinkResult.    *)
(***************************************************************************)
SynthesisResponse ==
  /\ upc = "await_synthesis"
  /\ ucalls' = Resolve(ucalls, "ok")
  /\ \E synthesis \in SynthesisTexts :
       /\ uevents' = Append(uevents,
            [type |-> "success", solution |-> synthesis, iterations |-> 1])
       /\ uresult' =
            LET agentResults == [k \in DOMAIN agents |-> agents[k].cell]
            IN [mode |-> "ultra-think",
                plan |-> PlanText,
                agentResults |-> agentResults,
                synthesis |-> synthesis,
                finalSolution |-> synthesis,
                totalAgents |-> Len(selectedConfigs),
                completedAgents |-> CompletedAgents(agentResults)]
  /\ upc' = "done"
  /\ UNCHANGED <<uoptions, configs, selectedConfigs, agents, uerror>>
  /\ UNCHANGED <<svars, dvars, hvars, tvars>>

UltraNext ==
  \/ UltraStart
  \/ PlanResponse
  \/ ObjectResponse
  \/ ObjectFails
  \/ TextResponse
  \/ UltraCallFails
  \/ AgentInitialResponse
  \/ AgentImprovementResponse
  \/ AgentVerificationResponse
  \/ AgentCheckResponse
  \/ AgentCorrectionResponse
  \/ AgentCallFails
  \/ Join
  \/ SynthesisResponse

UltraSpec == UltraInit /\ [][UltraNext]_vars

\* every outstanding call resolves or fails, and the continuation runs
UltraFairSpec == UltraSpec /\ WF_vars(UltraNext)

(***************************************************************************)
(* Vocabulary of the multi-agent properties.                               *)
(***************************************************************************)
Dispatched == upc \in {"agents", "await_synthesis", "done"}

Threw(a) == agents[a].outcome = "thrown"

SynthesisIssued == \E k \in DOMAIN ucalls : ucalls[k].stage = "synthesis"

UltraReturned == upc = "done"

C13_AllConfigsDispatched ==
  (Dispatched /\ uoptions.numAgents = 0) =>
    /\ Len(agents) = Len(configs.items)
    /\ \A k \in DOMAIN agents : agents[k].config = configs.items[k]
    /\ UltraReturned =>
         /\ uresult.totalAgents = Len(configs.items)
         /\ Len(uresult.agentResults) = Len(configs.items)

C13_Witness ==
  /\ UltraReturned
  /\ uoptions.numAgents = 0
  /\ Len(configs.items) = 2
  /\ uresult.totalAgents = 2

(***************************************************************************)
(* C14: with numAgents = M and P > M derived configurations, exactly the   *)
(* first M are dispatched (and only they get updates) and totalAgents = M. *)
(***************************************************************************)
C14_FirstMConfigsDispatched ==
  (Dispatched /\ uoptions.numAgents # 0
     /\ Len(configs.items) > uoptions.numAgents) =>
    /\ Len(agents) = uoptions.numAgents
    /\ selectedConfigs = SubSeq(configs.items, 1, uoptions.numAgents)
    /\ \A k \in DOMAIN agents :
         /\ agents[k].config = configs.items[k]
         /\ agents[k].updates # <<>>
    /\ UltraReturned =>
         /\ uresult.totalAgents = uoptions.numAgents
         /\ Len(uresult.agentResults) = uoptions.numAgents

C14_Witness ==
  /\ UltraReturned
  /\ uoptions.numAgents = 1
  /\ Len(configs.items) = 2
  /\ configs.items[1] # configs.items[2]
  /\ uresult.agentResults[1].agentId = configs.items[1].agentId

(***************************************************************************)
(* C15: the synthesis call is issued only after every dispatched agent     *)
(* has finished (completed or failed); while any agent has a call          *)
(* outstanding no synthesis call exists, and an agent's failure leaves     *)
(* the outstanding calls of its siblings in place.                         *)
(***************************************************************************)
C15_SynthesisAfterJoin ==
  /\ [](SynthesisIssued =>
          /\ Len(agents) = Len(selectedConfigs)
          /\ \A a \in DOMAIN agents : agents[a].apc = "finished")
  /\ [][\A a \in DOMAIN agents :
          (~Threw(a) /\ a \in DOMAIN agents' /\ agents'[a].outcome = "thrown") =>
            \A b \in DOMAIN agents \ {a} : agents'[b].apc = agents[b].apc]_vars

\* synthesis outstanding after one agent failed and one returned
C15_Witness ==
  /\ upc = "await_synthesis"
  /\ Len(agents) = 2
  /\ \E a, b \in DOMAIN agents : Threw(a) /\ ~Threw(b)

(***************************************************************************)
(* C16: in every UltraThinkResult totalAgents is the number of dispatched  *)
(* agents (the length of agentResults), completedAgents <= totalAgents,    *)
(* and completedAgents is the number of entries with status completed.     *)
(***************************************************************************)
C16_ResultCounts ==
  UltraReturned =>
    /\ uresult.totalAgents = Len(uresult.agentResults)
    /\ uresult.totalAgents = Len(agents)
    /\ uresult.completedAgents <= uresult.totalAgents
    /\ uresult.completedAgents =
         Cardinality({k \in DOMAIN uresult.agentResults :
                        uresult.agentResults[k].status = "completed"})

\* two agents, one of them failed
C16_Witness ==
  /\ UltraReturned
  /\ uresult.totalAgents = 2
  /\ uresult.completedAgents = 1

(***************************************************************************)
(* C17: the agentIds of the dispatched agents, and of the AgentResult      *)
(* entries of the result, are pairwise distinct.                           *)
(***************************************************************************)
C17_AgentIdsDistinct ==
  /\ Dispatched =>
       \A a, b \in DOMAIN agents :
         a # b => agents[a].cell.agentId # agents[b].cell.agentId
  /\ UltraReturned =>
       \A a, b \in DOMAIN uresult.agentResults :
         a # b => uresult.agentResults[a].agentId # uresult.agentResults[b].agentId

(***************************************************************************)
(* C18: the Iteration records of a single-agent run carry the indexes      *)
(* 0, 1, 2, ... in order: the j-th record appended has iteration = j.      *)
(***************************************************************************)
C18_IterationIndexesDense ==
  /\ \A j \in DOMAIN iterations : iterations[j].iteration = j - 1
  /\ Returned =>
       \A j \in DOMAIN result.iterations : result.iterations[j].iteration = j - 1

C18_Witness ==
  /\ Returned
  /\ Len(result.iterations) >= 3
  /\ HasFail
  /\ ~AllFailed

(***************************************************************************)
(* C19: agent-config derivation ends in one of two ways besides a          *)
(* propagated generation error: it returns a list of configurations, or    *)
(* it fails with the diagnostic parse error.                               *)
(***************************************************************************)
DerivationOver == upc \notin {"start", "await_plan", "await_object", "await_text"}

C19_ListOrDiagnostic ==
  DerivationOver =>
    \/ IsArray(configs)
    \/ upc = "thrown" /\ uerror.kind \in {"parse", "generation"}

(***************************************************************************)
(* C20: a generation-call failure in the planning, agent-config or         *)
(* synthesis stage is not retried: no call follows a failed one; and the   *)
(* textual fallback is entered only after a structured-decode failure.     *)
(***************************************************************************)
C20_NoRetryAfterGenerationFailure ==
  \A k \in DOMAIN ucalls :
    /\ ucalls[k].outcome = "generation-error" => k = Len(ucalls)
    /\ (ucalls[k].stage = "agentConfig" /\ ucalls[k].api = "generateText") =>
         ucalls[k - 1].outcome = "decode-error"

(***************************************************************************)
(* C22: each agent's AgentResult is written only by that agent's own       *)
(* handlers: a step of agent A (a progress event, its completion or its    *)
(* failure) changes no field of another agent's AgentResult and sends      *)
(* updates only under A's agentId; the identity fields of a cell are       *)
(* those of its own configuration throughout.                              *)
(***************************************************************************)
C22_OwnCellOnly ==
  /\ [](\A a \in DOMAIN agents :
          /\ agents[a].cell.agentId = agents[a].config.agentId
          /\ agents[a].cell.approach = agents[a].config.approach
          /\ agents[a].cell.specificPrompt = agents[a].config.specificPrompt
          /\ \A k \in DOMAIN agents[a].updates :
               agents[a].updates[k].agentId = agents[a].config.agentId)
  /\ [][(upc = "agents" /\ upc' = "agents") =>
          \A a \in DOMAIN agents :
            agents'[a] # agents[a] =>
              \A b \in DOMAIN agents \ {a} :
                /\ agents'[b].cell = agents[b].cell
                /\ agents'[b].updates = agents[b].updates]_vars
  /\ [][(upc = "agents" /\ upc' # "agents") => agents' = agents]_vars

\* two agents in flight, one already completed, the other still verifying
C22_Witness ==
  /\ upc = "agents"
  /\ \E a, b \in DOMAIN agents :
       /\ agents[a].cell.status = "completed"
       /\ agents[a].outcome = "success"
       /\ agents[b].cell.status = "verifying"
       /\ agents[a].config # agents[b].config

(***************************************************************************)
(* C23: in the main loop the candidate solution is replaced only by the    *)
(* output of a correction call, which is made only after a failed          *)
(* verification; a pass whose verification passed leaves the candidate as  *)
(* it is, so the next Iteration record carries the same solution.          *)
(***************************************************************************)
InMainLoop == pc \in {"loop", "tail", "await_correction", "after_loop"}
                \/ (pc \in {"await_verification", "await_check"} /\ caller = "loop")

C23_PassKeepsCandidate ==
  /\ [][(InMainLoop /\ solution' # solution) =>
          /\ pc = "await_correction"
          /\ ~iterations[Len(iterations)].verification.passed]_vars
  /\ [](\A j \in DOMAIN iterations :
          (iterations[j].verification.passed /\ j + 1 \in DOMAIN iterations) =>
            iterations[j + 1].solution = iterations[j].solution)

\* a correction changed the candidate, then two passing passes recorded it
C23_Witness ==
  \E j \in DOMAIN iterations :
    /\ j + 2 \in DOMAIN iterations
    /\ ~iterations[j].verification.passed
    /\ iterations[j + 1].solution # iterations[j].solution
    /\ iterations[j + 1].verification.passed
    /\ iterations[j + 2].verification.passed

(***************************************************************************)
(* C24: when the run gives up because errorCount reached                   *)
(* maxErrorsBeforeGiveUp it leaves the loop and returns: no correction     *)
(* call and no verification call is issued in or after that pass, and      *)
(* finalSolution is the solution of the last Iteration record, the one     *)
(* that just failed verification.                                          *)
(***************************************************************************)
VerificationCalls == {k \in DOMAIN calls : calls[k] = "verification"}

C24_GiveUpReturnsAtOnce ==
  /\ [](TooManyErrorsEmitted =>
          /\ pc \in {"after_loop", "done"}
          /\ calls[Len(calls)] = "check"
          /\ Cardinality(VerificationCalls) = Len(verifyLog)
          /\ Cardinality(CorrectionCalls) =
               Cardinality({j \in DOMAIN iterations :
                              ~iterations[j].verification.passed}) - 1
          /\ ~iterations[Len(iterations)].verification.passed
          /\ solution = iterations[Len(iterations)].solution
          /\ Returned =>
               result.finalSolution = iterations[Len(iterations)].solution)
  /\ [][(TooManyErrorsEmitted \/ TooManyErrorsEmitted') =>
          (calls' = calls /\ pc' \in {"after_loop", "done"})]_vars

\* gave up in a later pass, on a corrected solution
C24_Witness ==
  /\ Returned
  /\ TooManyErrorsEmitted
  /\ Len(iterations) >= 2
  /\ result.finalSolution # initial
  /\ result.finalSolution = iterations[Len(iterations)].solution

ContainsYes(text) ==
  \E p \in DOMAIN text :
    /\ p + 2 \in DOMAIN text
    /\ text[p] \in {"y", "Y"}
    /\ text[p + 1] \in {"e", "E"}
    /\ text[p + 2] \in {"s", "S"}

VerificationEvents == SelectSeq(events, LAMBDA e : e.type = "verification")

C26_PassedIsFunctionOfJudgment ==
  /\ [](\A k \in DOMAIN verifications :
          verifications[k].passed = ContainsYes(verifications[k].goodVerify))
  /\ [](\A j, k \in DOMAIN verifications :
          verifications[j].goodVerify = verifications[k].goodVerify =>
            verifications[j].passed = verifications[k].passed)
  /\ [](/\ Len(VerificationEvents) = Len(verifyLog)
        /\ \A k \in DOMAIN verifyLog :
             VerificationEvents[k].passed = ContainsYes(verifyLog[k].goodVerify))
  /\ [][(pc = "loop" /\ LoopContinues(i, options.maxIterations)
           /\ ~ContainsYes(verification.goodVerify)) =>
          /\ pc' \in {"await_correction", "after_loop"}
          /\ correctCount' = 0
          /\ errorCount' = errorCount + 1
          /\ iterations'[Len(iterations')].status = "correcting"
          /\ ~verifications'[Len(verifications')].passed]_vars

\* a malformed (empty) judgment was corrected, a later "Yes." passed
C26_Witness ==
  \E j, k \in DOMAIN verifications :
    /\ j < k
    /\ verifications[j].goodVerify = <<>>
    /\ ~verifications[j].passed
    /\ verifications[k].goodVerify = <<"Y", "e", "s", ".">>
    /\ verifications[k].passed
    /\ CorrectionCalls # {}

(***************************************************************************)
(* A run of either entry point: runDeepThink or runUltraThink.             *)
(***************************************************************************)
RunInit == Init \/ UltraInit

RunNext == Next \/ UltraNext

RunSpec == RunInit /\ [][RunNext]_vars

(***************************************************************************)
(* C27: an engine instance has at most one generation call outstanding:    *)
(* the number of calls issued exceeds the number settled by one exactly    *)
(* while the instance waits at an await, and a call is issued only when    *)
(* every earlier call of the instance has settled.  This holds for the     *)
(* engine of a single-agent run and for each agent's engine in a           *)
(* multi-agent run (where different agents do have calls outstanding at    *)
(* the same time).                                                         *)
(***************************************************************************)
Outstanding == Len(calls) - resolved

AgentOutstanding(a) == agents[a].outstanding

C27_OneCallOutstanding ==
  /\ [](/\ Outstanding \in {0, 1}
        /\ Outstanding = 1 <=> pc \in AwaitPoints)
  /\ [](\A a \in DOMAIN agents :
          /\ AgentOutstanding(a) \in {0, 1}
          /\ AgentOutstanding(a) = 1 <=> agents[a].apc \in AwaitPoints)
  /\ [][Len(calls') # Len(calls) =>
          /\ Len(calls') = Len(calls) + 1
          /\ resolved' = Len(calls)]_vars
  /\ [][\A a \in DOMAIN agents :
          (a \in DOMAIN agents' /\ agents'[a].apc # agents[a].apc
             /\ agents'[a].apc \in AwaitPoints) =>
            agents'[a].outstanding = 1]_vars

\* two agents wait for a call each, at different points of their runs
C27_Witness ==
  \E a, b \in DOMAIN agents :
    /\ a # b
    /\ AgentOutstanding(a) = 1
    /\ AgentOutstanding(b) = 1
    /\ agents[a].apc = "await_verification"
    /\ agents[b].apc = "await_correction"

(***************************************************************************)
(* C28: the events of a single-agent run come in causal order (progress    *)
(* messages aside): init first, then thinking(initial-exploration),        *)
(* solution, thinking(self-improvement), solution and verification, all    *)
(* for iteration 0; after that a correction event for pass i is followed   *)
(* by the solution event for i + 1 before the next verification event,     *)
(* and a verification event for i + 1 comes after the Iteration record of  *)
(* pass i.                                                                 *)
(***************************************************************************)
CausalEvents == SelectSeq(events, LAMBDA e : e.type # "progress")

OpeningTypes ==
  <<"init", "thinking", "solution", "thinking", "solution", "verification">>

C28_EventsInCausalOrder ==
  LET E == CausalEvents
  IN /\ \A k \in DOMAIN E :
          k <= Len(OpeningTypes) =>
            /\ E[k].type = OpeningTypes[k]
            /\ k > 1 => E[k].iteration = 0
            /\ k = 2 => E[k].phase = "initial-exploration"
            /\ k = 4 => E[k].phase = "self-improvement"
     /\ \A k \in DOMAIN E :
          (k > Len(OpeningTypes) /\ E[k].type = "verification") =>
            /\ E[k].iteration >= 1
            /\ E[k].iteration \in DOMAIN iterations
            /\ iterations[E[k].iteration].iteration = E[k].iteration - 1
     /\ \A k \in DOMAIN E :
          (E[k].type = "correction" /\ k + 1 \in DOMAIN E) =>
            /\ E[k + 1].type = "solution"
            /\ E[k + 1].iteration = E[k].iteration + 1
     /\ \A k \in DOMAIN E :
          E[k].type = "correction" =>
            /\ E[k].iteration + 1 \in DOMAIN iterations
            /\ E[k - 1].type = "verification"
            /\ E[k - 1].iteration = E[k].iteration

\* correction for pass 1, its solution and the verification for iteration 2
C28_Witness ==
  LET E == CausalEvents
  IN \E k \in DOMAIN E :
       /\ k + 2 \in DOMAIN E
       /\ E[k].type = "correction"
       /\ E[k].iteration = 1
       /\ E[k + 1].type = "solution"
       /\ E[k + 2].type = "verification"
       /\ E[k + 2].iteration = 2

(***************************************************************************)
(* C29: a multi-agent run that got past agent-config derivation issues     *)
(* exactly one synthesis call, after the join, however many agents         *)
(* completed (none included); the result it returns has finalSolution      *)
(* equal to synthesis, the text that call answered with.                   *)
(***************************************************************************)
SynthesisCalls == {k \in DOMAIN ucalls : ucalls[k].stage = "synthesis"}

C29_OneSynthesis ==
  /\ [](Cardinality(SynthesisCalls) <= 1)
  /\ []((upc \in {"await_synthesis", "done"}) =>
          /\ Cardinality(SynthesisCalls) = 1
          /\ AllAgentsFinished)
  /\ [][(upc = "agents" /\ upc' # "agents") =>
          /\ upc' = "await_synthesis"
          /\ AllAgentsFinished
          /\ SynthesisCalls' = {Len(ucalls')}
          /\ ucalls'[Len(ucalls')].outcome = "pending"]_vars
  /\ [](UltraReturned =>
          /\ ucalls[Len(ucalls)] =
               [stage |-> "synthesis", api |-> "generateText", outcome |-> "ok"]
          /\ uresult.finalSolution = uresult.synthesis
          /\ uresult.synthesis = uevents[Len(uevents)].solution
          /\ uresult.synthesis \in SynthesisTexts)

\* returned although no agent completed: both agents failed
C29_Witness ==
  /\ UltraReturned
  /\ uresult.totalAgents = 2
  /\ uresult.completedAgents = 0
  /\ uresult.finalSolution = <<"m","e","r","g","e","d">>

(***************************************************************************)
(* C30: every progress value of an agent, in its AgentResult cell and in   *)
(* every update sent for it, lies in 0..100; the value derived from a      *)
(* thinking event is 20 + 2 * iteration capped at 80; and the values       *)
(* reported for one agent never decrease.                                  *)
(***************************************************************************)
ProgressUpdates(a) ==
  SelectSeq(agents[a].updates, LAMBDA u : "progress" \in u.has)

C30_ProgressBoundedMonotone ==
  /\ [](\A a \in DOMAIN agents :
          /\ agents[a].cell.progress \in 0..100
          /\ \A k \in DOMAIN ProgressUpdates(a) :
               /\ ProgressUpdates(a)[k].progress \in 0..100
               /\ k > 1 => ProgressUpdates(a)[k - 1].progress
                             <= ProgressUpdates(a)[k].progress
               /\ (k > 1 /\ ProgressUpdates(a)[k].status = "thinking") =>
                    /\ ProgressUpdates(a)[k].progress = 20
                    /\ agents[a].cell.progress >= 20)
  /\ [](\A it \in 0..MaxThinkingIteration :
          /\ ThinkingProgress(it) \in 20..80
          /\ 20 + 2 * it <= 80 => ThinkingProgress(it) = 20 + 2 * it
          /\ 20 + 2 * it > 80 => ThinkingProgress(it) = 80)
  /\ [][\A a \in DOMAIN agents :
          a \in DOMAIN agents' =>
            agents[a].cell.progress <= agents'[a].cell.progress]_vars

\* an agent went 10, 20, 20, 100 and its cell ended at 100
C30_Witness ==
  \E a \in DOMAIN agents :
    /\ agents[a].cell.progress = 100
    /\ Len(ProgressUpdates(a)) >= 4
    /\ ProgressUpdates(a)[1].progress = 10
    /\ ProgressUpdates(a)[2].progress = 20
    /\ ProgressUpdates(a)[Len(ProgressUpdates(a))].progress = 100

(***************************************************************************)
(* The two decode paths of generateAgentConfigs side by side: the model    *)
(* answers with a list, once as the schema-valid object {configs: list}    *)
(* of the structured path and once as JSON text in a markdown code fence   *)
(* for the textual fallback.                                               *)
(***************************************************************************)
\* no single-agent engine exists
SingleIdle ==
  /\ options = NoOptions
  /\ pc = "idle"
  /\ caller = "initial"
  /\ i = 0
  /\ solution = NoText
  /\ verification = [bugReport |-> NoText, goodVerify |-> NoText]
  /\ initial = NoText
  /\ verificationOutput = NoText
  /\ correctCount = 0
  /\ errorCount = 0
  /\ iterations = <<>>
  /\ verifications = <<>>
  /\ events = <<>>
  /\ calls = <<>>
  /\ resolved = 0
  /\ verifyLog = <<>>
  /\ result = NoResult

\* the fenced JSON texts that hold a list: bare or under configs, with the
\* json tag or without, with white space around the fence or not
FencedTexts(list) ==
  LET values == {JsArray(list), JsObjectWithConfigs(list)}
      fenced == {FencedJson(value) : value \in values}
                  \cup {FencedPlain(value) : value \in values}
  IN fenced \cup {NewLine \o text \o Chars(<<" ">>) : text \in fenced}

NoDecode == [ok |-> FALSE, value |-> JsUndefined, error |-> NoError]

DecodeInit ==
  /\ dlist \in ConfigLists
  /\ dtext \in FencedTexts(dlist)
  /\ dstructured = JsUndefined
  /\ dtextual = NoDecode
  /\ ddone = {}
  /\ SingleIdle
  /\ UltraIdle
  /\ OthersIdle

\* return result.object.configs
StructuredPath ==
  /\ "structured" \notin ddone
  /\ dstructured' = ObjectDecode(dlist)
  /\ ddone' = ddone \cup {"structured"}
  /\ UNCHANGED <<dlist, dtext, dtextual>>
  /\ UNCHANGED <<svars, uvars, hvars>>

\* the catch block from the text of the textual call on
TextualPath ==
  /\ "textual" \notin ddone
  /\ dtextual' = TextDecode(dtext)
  /\ ddone' = ddone \cup {"textual"}
  /\ UNCHANGED <<dlist, dtext, dstructured>>
  /\ UNCHANGED <<svars, uvars, hvars>>

DecodeNext == StructuredPath \/ TextualPath

DecodeSpec == DecodeInit /\ [][DecodeNext]_vars

(***************************************************************************)
(* C21: for every list L of agent configurations, the structured path on   *)
(* a schema-valid response holding L and the textual fallback on the same  *)
(* JSON in a markdown code fence (bare list or object with the list under  *)
(* configs) return the same list, and that list is L.                      *)
(***************************************************************************)
C21_DecodePathsAgree ==
  /\ "structured" \in ddone => dstructured = JsArray(dlist)
  /\ "textual" \in ddone => dtextual.ok /\ dtextual.value = JsArray(dlist)
  /\ ddone = {"structured", "textual"} => dtextual.value = dstructured

\* both paths applied to a two-entry list under configs in a json fence
C21_Witness ==
  /\ ddone = {"structured", "textual"}
  /\ Len(dlist) = 2
  /\ dlist[1] # dlist[2]
  /\ dtext = FencedJson(JsObjectWithConfigs(dlist))
  /\ dtextual.value.items = dlist

(***************************************************************************)
(*                                                                         *)
(* The generation port: which model a stage resolves to and what search    *)
(* augmentation its call carries.                                          *)
(*                                                                         *)
(***************************************************************************)
Gpt4oMini == <<"g","p","t","-","4","o","-","m","i","n","i">>

GatewayModel == <<"o","p","e","n","r","o","u","t","e","r","/","o","1">>

PlainModel == <<"o","1">>

ModelNames == {Gpt4oMini, GatewayModel, PlainModel}

\* thinkingModel.startsWith("gpt-4o")
BuiltInSearchPrefix == <<"g","p","t","-","4","o">>

\* thinkingModel.includes("openrouter")
GatewayPattern == <<"o","p","e","n","r","o","u","t","e","r">>

\* a stage without a model of its own (absent or the empty string)
NoModel == <<>>

ToolStages == {"initial", "improvement", "correction"}

Stages == ToolStages \cup {"verification"}

\* the options handed to new DeepThinkEngine(...)
GivenOptions ==
  [maxIterations : {1},
   enableWebSearch : {"unset", "true", "false"},
   searchProvider : {"unset", "model", "tavily"},
   thinkingModel : ModelNames,
   modelStages : [Stages -> {NoModel, Gpt4oMini, PlainModel}]]

\* the constructor: enableWebSearch is false unless the caller gave it
Construct(given) ==
  [given EXCEPT !.enableWebSearch = IF @ = "unset" THEN "false" ELSE @]

getModelForStage(opts, stage) ==
  IF opts.modelStages[stage] # NoModel THEN opts.modelStages[stage]
                                     ELSE opts.thinkingModel

\* const { provider = "model" } = this.options.searchProvider || {}
ProviderOf(opts) ==
  IF opts.searchProvider = "unset" THEN "model" ELSE opts.searchProvider

getSearchTools(opts) ==
  IF opts.enableWebSearch # "true" THEN "none"
  ELSE IF /\ ProviderOf(opts) = "model"
          /\ StartsWith(opts.thinkingModel, BuiltInSearchPrefix)
       THEN "web_search_preview"
       ELSE "none"

getProviderOptions(opts) ==
  IF opts.enableWebSearch # "true" THEN "none"
  ELSE IF /\ ProviderOf(opts) = "model"
          /\ Includes(opts.thinkingModel, GatewayPattern)
       THEN "openrouter"
       ELSE "none"

\* a generateText call of initialExploration or of the correction branch
AugmentedCall(opts, stage) ==
  [stage |-> stage, model |-> getModelForStage(opts, stage),
   tools |-> getSearchTools(opts),
   providerOptions |-> getProviderOptions(opts)]

\* a generateText call of verifySolution: model and prompt only
PlainCall(opts, stage) ==
  [stage |-> stage, model |-> getModelForStage(opts, "verification"),
   tools |-> "none", providerOptions |-> "none"]

PortCorrections == {k \in DOMAIN gcalls : gcalls[k].stage = "correction"}

PortInit ==
  /\ goptions \in {Construct(given) : given \in GivenOptions}
  /\ gstage = "initial"
  /\ gcalls = <<>>
  /\ SingleIdle
  /\ UltraIdle
  /\ DecodeIdle
  /\ PageIdle

PortCall(stage, call, next) ==
  /\ gstage = stage
  /\ gcalls' = Append(gcalls, call)
  /\ gstage' = next
  /\ UNCHANGED goptions
  /\ UNCHANGED <<svars, uvars, dvars, pgvars>>

InitialCall ==
  PortCall("initial", AugmentedCall(goptions, "initial"), "improvement")

ImprovementCall ==
  PortCall("improvement", AugmentedCall(goptions, "improvement"),
           "verification")

VerificationCall ==
  PortCall("verification", PlainCall(goptions, "verification"), "check")

\* the yes/no check; the run then corrects, or ends
CheckCall ==
  \E next \in {"correction", "done"} :
    /\ next = "correction" => Cardinality(PortCorrections) < MaxErrorsBound
    /\ PortCall("check", PlainCall(goptions, "check"), next)

CorrectionCall ==
  PortCall("correction", AugmentedCall(goptions, "correction"),
           "verification")

PortNext ==
  \/ InitialCall
  \/ ImprovementCall
  \/ VerificationCall
  \/ CheckCall
  \/ CorrectionCall

PortSpec == PortInit /\ [][PortNext]_vars

(***************************************************************************)
(* C31: a generation call carries a search tool only if web search is      *)
(* enabled, the search provider is "model" and the model the call is       *)
(* invoked with (its stage model) belongs to the built-in-search family;   *)
(* with enableWebSearch false no call carries a search tool or provider    *)
(* options.                                                                *)
(* The code tests thinkingModel, not the stage model: a stage with its     *)
(* own model outside the family still carries the tool.                    *)
(***************************************************************************)
C31_ToolOnlyForCapableStageModel ==
  /\ \A k \in DOMAIN gcalls :
       gcalls[k].tools # "none" =>
         /\ goptions.enableWebSearch = "true"
         /\ ProviderOf(goptions) = "model"
         /\ StartsWith(gcalls[k].model, BuiltInSearchPrefix)
  /\ goptions.enableWebSearch = "false" =>
       \A k \in DOMAIN gcalls :
         gcalls[k].tools = "none" /\ gcalls[k].providerOptions = "none"

(***************************************************************************)
(* C32: in every DeepThinkResult (Success, Failure by too many errors,     *)
(* Failure by exhausting maxIterations) totalIterations equals the number  *)
(* of Iteration records in iterations.                                     *)
(* After the break on too many errors the result is built by the code      *)
(* after the loop, which writes maxIterations whatever the pass count.     *)
(***************************************************************************)
C32_TotalIterationsCountsRecords ==
  Returned => result.totalIterations = Len(result.iterations)

(***************************************************************************)
(* C33: at termination the result holds one Verification record per        *)
(* verification call made (the initial one included), verifications and    *)
(* iterations have the same length, and finalSolution is the candidate     *)
(* judged by the last recorded Verification or the correction of it.       *)
(* At exhaustion the verification fetched at the end of the last pass is   *)
(* dropped: the loop test fails before it is recorded.                     *)
(***************************************************************************)
C33_EveryVerificationRecorded ==
  Returned =>
    /\ Len(result.verifications) = Len(verifyLog)
    /\ Len(result.verifications) = Len(result.iterations)
    /\ LET last == result.iterations[Len(result.iterations)]
       IN \/ result.finalSolution = last.solution
          \/ /\ ~last.verification.passed
             /\ Len(calls) >= 3
             /\ calls[Len(calls) - 2] = "correction"

(***************************************************************************)
(* C34: in every UltraThinkResult an AgentResult with status completed     *)
(* carries no error, and an agent counts in completedAgents only if its    *)
(* single-agent run terminated Success; an agent whose run ended in        *)
(* Failure is not reported as completed.                                   *)
(* runAgent writes status completed after every run that returned, and     *)
(* leaves the error its failure handler wrote.                             *)
(***************************************************************************)
SucceededAgents == {a \in DOMAIN agents : agents[a].outcome = "success"}

C34_CompletedMeansSuccess ==
  uresult # NoResult =>
    /\ \A a \in DOMAIN uresult.agentResults :
         uresult.agentResults[a].status = "completed" =>
           /\ uresult.agentResults[a].error = ""
           /\ a \in SucceededAgents
    /\ uresult.completedAgents <= Cardinality(SucceededAgents)

(***************************************************************************)
(* C35: on the per-agent update channel the statuses failed and completed  *)
(* are absorbing: after an update with one of them no later update of      *)
(* that agent carries a different status.                                  *)
(* A run that returns Failure sends failed from its failure event and      *)
(* then completed from the code after `await engine.run()`.                *)
(***************************************************************************)
StatusUpdates(a) ==
  SelectSeq(agents[a].updates, LAMBDA u : "status" \in u.has)

C35_TerminalStatusAbsorbing ==
  \A a \in DOMAIN agents :
    \A j, k \in DOMAIN StatusUpdates(a) :
      /\ j < k
      /\ StatusUpdates(a)[j].status \in {"failed", "completed"}
      => StatusUpdates(a)[k].status = StatusUpdates(a)[j].status

(***************************************************************************)
(*                                                                         *)
(* A multi-agent run started through runUltraThinkMode: onAgentUpdate is   *)
(* the global store's updateAgentResult.                                   *)
(*                                                                         *)
(***************************************************************************)
\* `agent_${String(i + 1).padStart(2, "0")}`
PlaceholderId(n) ==
  <<"agent_01", "agent_02", "agent_03", "agent_04", "agent_05",
    "agent_06", "agent_07", "agent_08", "agent_09">>[n]

Placeholder(n) ==
  [agentId |-> PlaceholderId(n), approach |-> "preparing",
   specificPrompt |-> "", status |-> "pending", progress |-> 0,
   hasSolution |-> FALSE, solution |-> NoText, verifications |-> <<>>,
   error |-> ""]

\* what an earlier run left in the store
StaleAgentResults ==
  { <<>>,
    << [Placeholder(1) EXCEPT !.status = "completed", !.progress = 100] >> }

StoreInit ==
  /\ uoptions \in [maxIterations : {1},
                   requiredSuccessfulVerifications : {1},
                   maxErrorsBeforeGiveUp : {2},
                   numAgents : 0..(MaxConfigs - 1),
                   onAgentUpdate : {"updateAgentResult"}]
  /\ upc = "mode"
  /\ configs = JsUndefined
  /\ selectedConfigs = <<>>
  /\ agents = <<>>
  /\ uevents = <<>>
  /\ ucalls = <<>>
  /\ uerror = NoError
  /\ uresult = NoResult
  /\ storeAgentResults \in StaleAgentResults
  /\ consumers = <<>>
  /\ SingleIdle
  /\ DecodeIdle
  /\ OthersIdle

\* runUltraThinkMode up to its call of runUltraThink
RunUltraThinkMode ==
  /\ upc = "mode"
  /\ storeAgentResults' =
       IF uoptions.numAgents # 0
       THEN [n \in 1..uoptions.numAgents |-> Placeholder(n)]
       ELSE <<>>
  /\ upc' = "start"
  /\ UNCHANGED <<uoptions, configs, selectedConfigs, agents, uevents, ucalls,
                 uerror, uresult, consumers>>
  /\ UNCHANGED <<svars, dvars, hvars>>

StoreNext == RunUltraThinkMode \/ UltraNext

StoreSpec == StoreInit /\ [][StoreNext]_vars

\* the agents whose runAgent sent an update in this step
Acting ==
  {a \in DOMAIN agents' :
     \/ a \notin DOMAIN agents
     \/ agents'[a].updates # agents[a].updates}

LastUpdate(a) == agents'[a].updates[Len(agents'[a].updates)]

Holds(entry, update) ==
  /\ "status" \in update.has => entry.status = update.status
  /\ "progress" \in update.has => entry.progress = update.progress
  /\ "solution" \in update.has => entry.solution = update.solution
  /\ "verifications" \in update.has =>
        entry.verifications = update.verifications
  /\ "error" \in update.has => entry.error = update.error
  /\ "approach" \in update.has => entry.approach = update.approach
  /\ "specificPrompt" \in update.has =>
        entry.specificPrompt = update.specificPrompt

(***************************************************************************)
(* C37: while a run started through runUltraThinkMode is in progress,      *)
(* every update sent for a dispatched agent is reflected in the store:     *)
(* afterwards agentResults has an entry with that agentId holding the      *)
(* updated fields, with numAgents given and in auto mode; and              *)
(* updateAgentResult changes only entries with the matching agentId.       *)
(* updateAgentResult maps over the entries there are: in auto mode the     *)
(* store was emptied, and with numAgents given it holds placeholders       *)
(* agent_01.. whatever agentIds the configurations carry.                  *)
(***************************************************************************)
C37_UpdatesReachStore ==
  [][ /\ \A a \in Acting :
           \E k \in DOMAIN storeAgentResults' :
             /\ storeAgentResults'[k].agentId = agents'[a].config.agentId
             /\ Holds(storeAgentResults'[k], LastUpdate(a))
      /\ upc = "agents" =>
           \A k \in DOMAIN storeAgentResults :
             (\A a \in Acting :
                agents'[a].config.agentId # storeAgentResults[k].agentId)
             => storeAgentResults'[k] = storeAgentResults[k] ]_vars

(***************************************************************************)
(* C36: for every agent, the consumer that starts from the agent's         *)
(* configuration and merges, in order, all partial updates sent for its    *)
(* agentId ends in a record equal to the agent's final AgentResult in the  *)
(* UltraThinkResult: same status, progress, solution, verifications and    *)
(* error.                                                                  *)
(* Two dispatched agents may carry one agentId; the consumer of that       *)
(* agentId then merges the updates of both.                                *)
(***************************************************************************)
SameOutcome(merged, final) ==
  /\ merged.status = final.status
  /\ merged.progress = final.progress
  /\ merged.hasSolution = final.hasSolution
  /\ merged.solution = final.solution
  /\ merged.verifications = final.verifications
  /\ merged.error = final.error

C36_MergedUpdatesEqualResult ==
  uresult # NoResult =>
    \A a \in DOMAIN uresult.agentResults :
      SameOutcome(consumers[a], uresult.agentResults[a])

(***************************************************************************)
(*                                                                         *)
(* The page: handleSubmit starts a run and awaits it; the mode selector    *)
(* and the new-research button stay enabled meanwhile.                     *)
(*                                                                         *)
(***************************************************************************)
ThinkModes == {"deep-think", "ultra-think"}

\* ids of the task store: none, or the id of a saved research
TaskIds == {"", "task-1"}

\* handleCheck: an API key or the proxy mode is configured, or not
CheckOutcomes == {"ready", "no-key"}

\* how the awaited run ends inside handleSubmit's try block
RunOutcomes == {"result", "null", "exception"}

PageInit ==
  /\ isThinking = FALSE
  /\ localIsThinking = FALSE
  /\ thinkMode \in ThinkModes
  /\ deepThinkResult = "null"
  /\ ultraThinkResult = "null"
  /\ openSetting = FALSE
  /\ currentPhase = ""
  /\ taskId \in TaskIds
  /\ submitPc = "idle"
  /\ SingleIdle
  /\ UltraIdle
  /\ DecodeIdle
  /\ PortIdle

\* resetThinkResults
resetThinkResults ==
  /\ deepThinkResult' = "null"
  /\ ultraThinkResult' = "null"
  /\ isThinking' = FALSE
  /\ currentPhase' = ""

\* handleSubmit from the click to the await of the run.  The submit button
\* is disabled while the page's own isThinking is set.
HandleSubmit ==
  /\ submitPc = "idle"
  /\ ~localIsThinking
  /\ \E check \in CheckOutcomes :
       IF check = "ready"
       THEN /\ localIsThinking' = TRUE
            /\ IF taskId # ""
               THEN \* setGlobalThinking(true), then createNewResearch()
                    /\ resetThinkResults
                    /\ taskId' \in TaskIds
               ELSE /\ isThinking' = TRUE
                    /\ UNCHANGED <<deepThinkResult, ultraThinkResult,
                                   currentPhase, taskId>>
            /\ submitPc' = thinkMode
            /\ UNCHANGED openSetting
       ELSE /\ openSetting' = TRUE
            /\ UNCHANGED <<isThinking, localIsThinking, deepThinkResult,
                           ultraThinkResult, currentPhase, taskId, submitPc>>
  /\ UNCHANGED thinkMode
  /\ UNCHANGED <<svars, uvars, dvars, gvars>>

\* the awaited run settles: the result is stored and saved, and the
\* finally block clears both flags
RunSettles ==
  /\ submitPc \in ThinkModes
  /\ \E outcome \in RunOutcomes :
       /\ IF outcome = "result" /\ submitPc = "deep-think"
          THEN deepThinkResult' = "result"
          ELSE UNCHANGED deepThinkResult
       /\ IF outcome = "result" /\ submitPc = "ultra-think"
          THEN ultraThinkResult' = "result"
          ELSE UNCHANGED ultraThinkResult
       /\ IF outcome = "result" THEN taskId' \in TaskIds ELSE UNCHANGED taskId
  /\ localIsThinking' = FALSE
  /\ isThinking' = FALSE
  /\ submitPc' = "idle"
  /\ UNCHANGED <<thinkMode, openSetting, currentPhase>>
  /\ UNCHANGED <<svars, uvars, dvars, gvars>>

\* the mode selector's onChange
ChangeThinkMode ==
  /\ submitPc # "unmounted"
  /\ \E mode \in ThinkModes : thinkMode' = mode
  /\ resetThinkResults
  /\ UNCHANGED <<localIsThinking, openSetting, taskId, submitPc>>
  /\ UNCHANGED <<svars, uvars, dvars, gvars>>

\* the new-research button: createNewResearch
NewResearch ==
  /\ submitPc # "unmounted"
  /\ resetThinkResults
  /\ taskId' \in TaskIds
  /\ UNCHANGED <<localIsThinking, thinkMode, openSetting, submitPc>>
  /\ UNCHANGED <<svars, uvars, dvars, gvars>>

\* the settings dialog is closed again
CloseSetting ==
  /\ openSetting
  /\ openSetting' = FALSE
  /\ UNCHANGED <<isThinking, localIsThinking, thinkMode, deepThinkResult,
                 ultraThinkResult, currentPhase, taskId, submitPc>>
  /\ UNCHANGED <<svars, uvars, dvars, gvars>>

\* the phases handleProgress writes for init, thinking and correction events
Phases == {"initializing", "initial-exploration", "self-improvement",
           "correcting"}

\* the run in flight emits an event and handleProgress stores its phase
HandleProgress ==
  /\ submitPc \in ThinkModes
  /\ \E phase \in Phases : currentPhase' = phase
  /\ UNCHANGED <<isThinking, localIsThinking, thinkMode, deepThinkResult,
                 ultraThinkResult, openSetting, taskId, submitPc>>
  /\ UNCHANGED <<svars, uvars, dvars, gvars>>

PageNext ==
  \/ HandleSubmit
  \/ HandleProgress
  \/ RunSettles
  \/ ChangeThinkMode
  \/ NewResearch
  \/ CloseSetting

PageSpec == PageInit /\ [][PageNext]_vars

RunInFlight == submitPc \in ThinkModes

(***************************************************************************)
(* C38: the global isThinking flag is true for the whole time a run        *)
(* started by handleSubmit is in flight and false once it has finished,    *)
(* whatever the user does meanwhile (changing the think mode, starting a   *)
(* new research).                                                          *)
(* resetThinkResults clears the flag: the mode selector and the            *)
(* new-research button call it during a run, and handleSubmit itself       *)
(* calls it, right after setting the flag, when a task id exists.          *)
(***************************************************************************)
C38_FlagFollowsRun ==
  /\ RunInFlight => isThinking
  /\ submitPc = "idle" => ~isThinking

====
